---- MODULE Spec2Model ----
(***************************************************************************)
(* itsa: colourised output (src/src/color.c).                              *)
(*                                                                         *)
(* parser() turns a string holding #NAME# colour tokens into a string      *)
(* holding terminal escape codes.  The model follows the C code one loop   *)
(* iteration at a time.  A C string is a sequence of bytes, a byte is a    *)
(* one-character string; the two bytes that have no printable form are     *)
(* written ESC (0x1b, "\e" in color.h) and NUL (0x00).  The output buffer  *)
(* is a heap block: `new', `ptr' and `sptr' are addresses, `mem' is the    *)
(* content of the block `new' points to.  A store outside its array is     *)
(* undefined behaviour: the process either goes on or dies before parser() *)
(* returns.                                                                *)
(*                                                                         *)
(* Four specifications:                                                    *)
(*   Spec       parser() entered on a string, memory never runs out        *)
(*   PrintSpec  one call of printc() or printc_xtra(), parser() within it  *)
(*   AllocSpec  parser() called by printc() while memory can run out       *)
(*   MainSpec   main() from its first statement to exit(), with the        *)
(*              colouring mode set_colors() sets on the way                *)
(***************************************************************************)
EXTENDS Integers, Sequences, FiniteSets, TLC

ESC  == "ESC"
NUL  == "NUL"
HASH == "#"
\* The content of a byte of memory nobody has written yet.
JUNK == "?"

\* color.c:19 and color.c:66
MAX_COLOR_NAME == 32
ALLOC_SZ       == 64

----------------------------------------------------------------------------
(* color.h:14-25, the escape codes *)

Esc256(digits) == <<ESC, "[", "3", "8", ";", "5", ";">> \o digits \o <<"m">>

TC_HI_YELLOW == Esc256(<<"1", "1">>)
TC_HI_GREEN  == Esc256(<<"1", "0">>)
TC_HI_RED    == Esc256(<<"9">>)
TC_HI_BLUE   == Esc256(<<"3", "3">>)
TC_GREEN     == Esc256(<<"4", "0">>)
TC_RED       == Esc256(<<"1", "6", "0">>)
TC_BLUE      == Esc256(<<"7", "5">>)
TC_CHARC     == Esc256(<<"8">>)
TC_TANG      == Esc256(<<"2", "2", "0">>)
TC_BOLD      == <<ESC, "[", "1", "m">>
\* A buggy code: a reset that is the empty string.
TC_RST_EMPTY == <<>>
TC_RST       == <<ESC, "[", "0", "m">>

(* color.c:21-52, the table in the order of the source; the {} entry that  *)
(* ends the C array is the end of the sequence.                            *)
colors ==
   << [color |-> <<"H","I","_","Y","E","L","L","O","W">>,
       code |-> TC_HI_YELLOW],
      [color |-> <<"H","I","_","G","R","E","E","N">>,
       code |-> TC_HI_GREEN],
      [color |-> <<"H","I","_","R","E","D">>,
       code |-> TC_HI_RED],
      [color |-> <<"H","I","_","B","L","U","E">>,
       code |-> TC_HI_BLUE],
      [color |-> <<"G","R","E","E","N">>,
       code |-> TC_GREEN],
      [color |-> <<"R","E","D">>,
       code |-> TC_RED],
      [color |-> <<"B","L","U","E">>,
       code |-> TC_BLUE],
      [color |-> <<"C","H","A","R","C">>,
       code |-> TC_CHARC],
      [color |-> <<"T","A","N","G">>,
       code |-> TC_TANG],
      [color |-> <<"B","O","L","D">>,
       code |-> TC_BOLD],
      [color |-> <<"R","S","T">>,
       code |-> TC_RST],
      [color |-> <<"M","S","G","_","I","N","F","O">>,
       code |-> TC_HI_BLUE],
      [color |-> <<"M","S","G","_","W","A","R","N">>,
       code |-> TC_HI_YELLOW],
      [color |-> <<"M","S","G","_","E","R","R">>,
       code |-> TC_HI_RED],
      [color |-> <<"I","N","F","O">>,
       code |-> TC_BLUE],
      [color |-> <<"C","O","N","F","I","R","M">>,
       code |-> TC_CHARC],
      [color |-> <<"W","A","R","N","I","N","G">>,
       code |-> TC_HI_YELLOW],
      [color |-> <<"S","U","C","C","E","S","S">>,
       code |-> TC_HI_GREEN],
      [color |-> <<"E","R","R","O","R">>,
       code |-> TC_HI_RED],
      [color |-> <<"S","T","R","U","E">>,
       code |-> TC_HI_GREEN],
      [color |-> <<"S","F","A","L","S","E">>,
       code |-> TC_HI_RED] >>

----------------------------------------------------------------------------
(* C strings and pointers *)

\* A `const char *' that may be NULL: <<>> is NULL, <<s>> points to s.
NULL     == <<>>
PtrTo(s) == <<s>>

\* The C string that starts at cell 1 of `cells': the bytes before the first
\* NUL.  Without a NUL the read runs to the end of what the model holds.
CStr(cells) ==
   LET end == CHOOSE i \in 1..(Len(cells) + 1) :
                 /\ i = Len(cells) + 1 \/ cells[i] = NUL
                 /\ \A j \in 1..(i - 1) : cells[j] # NUL
   IN SubSeq(cells, 1, end - 1)

\* strcmp(a, b) == 0 on two C strings
StrcmpEq0(a, b) == a = b

\* strncmp(a, b, strlen(b)) == 0, a match on a prefix
StrcmpPrefix(a, b) == Len(a) >= Len(b) /\ SubSeq(a, 1, Len(b)) = b

\* A buggy comparison: a table name that is a prefix of the name matches.
NameMatchesPrefix(name, entry) == StrcmpPrefix(name, entry)

\* A buggy comparison: strncmp() over the length of the name, so that a name
\* matches every table name it is a prefix of, the empty name every one.
NameMatchesUpToName(name, entry) == StrcmpPrefix(entry, name)

\* color.c:59
NameMatches(name, entry) == StrcmpEq0(name, entry)

\* color.c:54-64: the first entry whose name matches, else NULL
RECURSIVE lookupFrom(_, _)
lookupFrom(i, name) ==
   IF i > Len(colors) THEN NULL
   ELSE IF NameMatches(name, colors[i].color) THEN PtrTo(colors[i].code)
   ELSE lookupFrom(i + 1, name)

lookup(name) == lookupFrom(1, name)

----------------------------------------------------------------------------
(* The state of one parser() call *)

VARIABLES
   NO_COLOR,   \* color.c:85, the global colouring switch
   input,      \* the bytes of the string parser() was called with
   buf,        \* color.c:86, the read pointer, as an offset into input
   new,        \* color.c:88, the address of the output block
   mem,        \* the content of the output block, alloc bytes
   ptr,        \* color.c:89, the write pointer (an address)
   sptr,       \* color.c:90, where the current token started (an address)
   color,      \* color.c:91, the name accumulator and what lies behind it
   cptr,       \* color.c:92, the accumulator's write pointer, as an offset
   in_color,   \* color.c:93
   alloc,      \* color.c:94, the size of the output block
   code,       \* color.c:97, the code of the last iteration
   ub,         \* a store went outside its array: behaviour is undefined
   pc,         \* "loop", "done" (parser returned), "aborted" (process died)
   out,        \* the string parser() returned
   nomem,      \* the allocator has no memory left: malloc and realloc fail
   seen        \* how often `while (*buf)' found each byte of input

\* The locals of parser() and what the call leaves behind
parserVars == <<input, buf, new, mem, ptr, sptr, color, cptr, in_color,
                alloc, code, ub, out, seen>>

\* A call of printc() or printc_xtra() (color.c:155-224)
VARIABLES
   call,       \* the arguments of the call, or NULL outside a call
   pstr,       \* color.c:160, `str', the prefix followed by the format
   pbuf,       \* color.c:158 and 207, `buf', the string vasprintf() built
   plen,       \* color.c:162 and 209, `len', what vasprintf() returned
   files       \* what was written to stdout and to stderr, write by write

printVars == <<call, pstr, pbuf, plen, files>>

\* main() and the environment of the process (itsa.c:2496-2549)
VARIABLES
   mainpc,     \* the statement main() is at
   env,        \* the value of the environment variable of the colouring mode
   tty,        \* isatty(): the output is a terminal
   home,       \* open() of $HOME succeeds
   argc,       \* itsa.c:2496
   colorsSet   \* set_colors() was called

mainVars == <<mainpc, env, tty, home, argc, colorsSet>>

\* A command main() dispatches to (itsa.c:2473 and 2479) and what it deals
\* with: standard input and the requests it makes
VARIABLES
   stdin,      \* the bytes of standard input, from the first to end-of-file
   rpos,       \* how many of them were read
   submit,     \* itsa.c:847 and 1246, the answer fgets() stored
   trace,      \* requests with their results, sleeps, prompts, editor runs
   fib_sleep,  \* itsa.c:762
   state,      \* itsa.c:761
   err,        \* itsa.c:760, 850 and 1249, the result of the last call
   calc_err,   \* itsa.c:849
   ret         \* itsa.c:848 and 1248, what the command returns

cmdVars == <<stdin, rpos, submit, trace, fib_sleep, state, err, calc_err, ret>>

vars == <<NO_COLOR, pc, nomem, parserVars, printVars, mainVars, cmdVars>>

\* The locals of the call as one value, for the operators below.
St ==
   [NO_COLOR |-> NO_COLOR, input |-> input, buf |-> buf, new |-> new,
    mem |-> mem, ptr |-> ptr, sptr |-> sptr, color |-> color, cptr |-> cptr,
    in_color |-> in_color, alloc |-> alloc, code |-> code, ub |-> ub,
    nomem |-> nomem]

\* The null pointer, what malloc and realloc return when they fail
NullAddr == 0

\* The address malloc(ALLOC_SZ) returns when it succeeds; every address is as
\* good as another.
MallocAddr == 2 * ALLOC_SZ

\* malloc(ALLOC_SZ), color.c:88
malloc(fails) == IF fails THEN NullAddr ELSE MallocAddr

\* color.c:88-94, the locals before the first iteration, in a process whose
\* allocator fails (fails) or serves every request
parserEntry(nocolor, str, fails) ==
   [NO_COLOR |-> nocolor, input |-> str, buf |-> 0, new |-> malloc(fails),
    mem |-> [i \in 1..ALLOC_SZ |-> JUNK], ptr |-> malloc(fails),
    sptr |-> malloc(fails), color |-> [i \in 1..MAX_COLOR_NAME |-> JUNK],
    cptr |-> 0, in_color |-> FALSE, alloc |-> ALLOC_SZ,
    code |-> PtrTo(<<>>), ub |-> FALSE, nomem |-> fails]

parserInit(nocolor, str) == parserEntry(nocolor, str, FALSE)

\* What an object that is not initialised holds: the block malloc() returns
\* (color.c:88) and the array color[] (color.c:91) are either at the place of
\* the block and of the array of the call before, with the bytes that call
\* left there, or somewhere else.
Leftover(cells, size, reuse) ==
   [i \in 1..size |-> IF reuse /\ i <= Len(cells) THEN cells[i] ELSE JUNK]

\* A buggy entry: the flag is kept from one call to the next, as a `static'
\* local would be.
parserReentryKeepsFlag(st, str, reuse) ==
   [parserEntry(st.NO_COLOR, str, st.nomem) EXCEPT
       !.mem      = Leftover(st.mem, ALLOC_SZ, reuse),
       !.color    = Leftover(st.color, MAX_COLOR_NAME, reuse),
       !.in_color = st.in_color]

\* color.c:88-94 in a process whose locals of the call before were st: every
\* local with an initialiser gets its value, the block and the array hold
\* leftovers.
parserReentry(st, str, reuse) ==
   [parserEntry(st.NO_COLOR, str, st.nomem) EXCEPT
       !.mem   = Leftover(st.mem, ALLOC_SZ, reuse),
       !.color = Leftover(st.color, MAX_COLOR_NAME, reuse)]

----------------------------------------------------------------------------
(* Memory *)

\* `*addr = b' on the output block (color.c:99, 130, 150).  A store outside
\* the block, or through a pointer made from the null pointer, is undefined
\* behaviour; the block itself is not changed by it.
Store(st, addr, b) ==
   LET off == addr - st.new
   IN IF st.new # NullAddr /\ off >= 0 /\ off < st.alloc
      THEN [st EXCEPT !.mem[off + 1] = b]
      ELSE [st EXCEPT !.ub = TRUE]

\* `*cptr = b' (color.c:107, 119).  color[] has MAX_COLOR_NAME cells and the
\* code checks no bound: a store at offset MAX_COLOR_NAME or above lands in
\* the stack behind the array, which is undefined behaviour.  When the process
\* survives it, the byte is read back from where it was put.
StoreName(st, b) ==
   LET cells == IF st.cptr < Len(st.color)
                THEN [st.color EXCEPT ![st.cptr + 1] = b]
                ELSE Append(st.color, b)
   IN [st EXCEPT !.color = cells,
                 !.ub = @ \/ st.cptr >= MAX_COLOR_NAME]

\* memcpy(ptr, src, strlen(src)), color.c:130
RECURSIVE memcpyFrom(_, _, _)
memcpyFrom(st, src, i) ==
   IF i > Len(src) THEN st
   ELSE memcpyFrom(Store(st, st.ptr + (i - 1), src[i]), src, i + 1)

memcpy(st, src) == memcpyFrom(st, src, 1)

\* A buggy bound: `len + extra <= *alloc', one byte too late.
FitsAllocLate(len, extra, size) ==
   LET sum == len + extra IN sum >= 0 /\ sum <= size

\* `len + extra < *alloc' in size_t (color.c:73).  len is a pointer
\* difference; -1 (ptr one byte before the block) converts to SIZE_MAX and
\* the sum wraps around to extra - 1.  A sum that stays negative here is a
\* size_t near SIZE_MAX, which is not below alloc.
FitsAlloc(len, extra, size) ==
   LET sum == len + extra IN sum >= 0 /\ sum < size

\* realloc(base, size) (color.c:76) when it succeeds: the block keeps its
\* content and either stays where it is or moves; the new bytes are not
\* initialised.
reallocAddr(base, size, moved) == IF moved THEN base + size ELSE base

\* realloc(base, size), which returns the null pointer when it fails
realloc(st, size, moved) ==
   IF st.nomem THEN NullAddr ELSE reallocAddr(st.new, size, moved)

\* color.c:79-80, a pointer put at its old offset from the new base
Rebase(base, off) == base + off

\* A buggy srealloc: the token-start mark is left at its old address.
sreallocStaleMark(st, extra, moved) ==
   LET len == st.ptr - st.new
   IN IF FitsAlloc(len, extra, st.alloc) THEN st
      ELSE LET base == realloc(st, st.alloc + ALLOC_SZ, moved)
           IN [st EXCEPT !.new   = base,
                         !.mem   = st.mem \o [i \in 1..ALLOC_SZ |-> JUNK],
                         !.alloc = st.alloc + ALLOC_SZ,
                         !.ptr   = Rebase(base, len)]

\* A buggy srealloc: the block is doubled, not grown by ALLOC_SZ.
sreallocDoubles(st, extra, moved) ==
   LET len  == st.ptr - st.new
       slen == st.sptr - st.new
   IN IF FitsAlloc(len, extra, st.alloc) THEN st
      ELSE LET base == realloc(st, 2 * st.alloc, moved)
           IN [st EXCEPT !.new   = base,
                         !.mem   = st.mem \o [i \in 1..st.alloc |-> JUNK],
                         !.alloc = 2 * st.alloc,
                         !.ptr   = Rebase(base, len),
                         !.sptr  = Rebase(base, slen)]

\* A buggy srealloc: the write pointer is left at its old address.
sreallocStaleCursor(st, extra, moved) ==
   LET slen == st.sptr - st.new
   IN IF FitsAlloc(st.ptr - st.new, extra, st.alloc) THEN st
      ELSE LET base == realloc(st, st.alloc + ALLOC_SZ, moved)
           IN [st EXCEPT !.new   = base,
                         !.mem   = st.mem \o [i \in 1..ALLOC_SZ |-> JUNK],
                         !.alloc = st.alloc + ALLOC_SZ,
                         !.sptr  = Rebase(base, slen)]

\* color.c:67-83
srealloc(st, extra, moved) ==
   LET len  == st.ptr - st.new
       slen == st.sptr - st.new
   IN IF FitsAlloc(len, extra, st.alloc) THEN st
      ELSE LET base == realloc(st, st.alloc + ALLOC_SZ, moved)
           IN [st EXCEPT !.new   = base,
                         !.mem   = st.mem \o [i \in 1..ALLOC_SZ |-> JUNK],
                         !.alloc = st.alloc + ALLOC_SZ,
                         !.ptr   = Rebase(base, len),
                         !.sptr  = Rebase(base, slen)]

----------------------------------------------------------------------------
(* The loop body of parser(), color.c:96-149 *)

\* color.c:101-105, a '#' outside a token
OpenBranch(st) ==
   [st EXCEPT !.sptr = st.ptr, !.cptr = 0, !.in_color = TRUE]

\* color.c:106-109, a byte of the name
NameBranch(st, c) ==
   LET s == StoreName(st, c) IN [s EXCEPT !.cptr = s.cptr + 1]

\* A buggy elision: the write pointer put on the token's '#', not before it.
ElideKeepsHash(st) == [st EXCEPT !.ptr = st.sptr]

\* color.c:123-124, a token that leaves nothing in the output
ElideBranch(st) == [st EXCEPT !.ptr = st.sptr - 1]

\* A buggy replacement: `ptr += clen', which forgets the `ptr++' at next.
CodeBranchSkips(st, cd, moved) ==
   LET clen == Len(cd)
       s1   == srealloc([st EXCEPT !.ptr = st.sptr], clen, moved)
       s2   == memcpy(s1, cd)
   IN [s2 EXCEPT !.ptr = s2.ptr + clen]

\* A buggy replacement: the code is copied without a look at the room left.
CodeBranchNoGrow(st, cd, moved) ==
   LET clen == Len(cd)
       s2   == memcpy([st EXCEPT !.ptr = st.sptr], cd)
   IN [s2 EXCEPT !.ptr = s2.ptr + (clen - 1)]

\* color.c:125-131, a token replaced by its code
CodeBranch(st, cd, moved) ==
   LET clen == Len(cd)
       s1   == srealloc([st EXCEPT !.ptr = st.sptr], clen, moved)
       s2   == memcpy(s1, cd)
   IN [s2 EXCEPT !.ptr = s2.ptr + (clen - 1)]

\* A buggy unknown name: the span is dropped like an empty code's.
RewindDrops(st) == [st EXCEPT !.buf = st.buf - 1, !.ptr = st.sptr - 1]

\* color.c:132-143, an unknown name: the '#' is read again
RewindBranch(st) == [st EXCEPT !.buf = st.buf - 1, !.ptr = st.ptr - 1]

\* color.c:120-121, the code of a closed token
CodeOf(nocolor, name) == IF ~nocolor THEN lookup(name) ELSE PtrTo(<<>>)

\* color.c:118-121, the name is closed and looked up
Closed(st) ==
   LET s1 == StoreName([st EXCEPT !.in_color = FALSE], NUL)
   IN [s1 EXCEPT !.code = CodeOf(s1.NO_COLOR, CStr(s1.color))]

\* color.c:118-143, the '#' that closes a token
CloseBranch(st, moved) ==
   LET s2 == Closed(st)
       cd == s2.code
   IN IF cd # NULL /\ cd[1] = <<>> THEN ElideBranch(s2)
      ELSE IF cd # NULL THEN CodeBranch(s2, cd[1], moved)
      ELSE RewindBranch(s2)

\* color.c:145-148
NextLabel(st, moved) ==
   LET s == srealloc(st, 1, moved)
   IN [s EXCEPT !.buf = s.buf + 1, !.ptr = s.ptr + 1]

\* color.c:97-143, an iteration up to the label `next'
BeforeNext(st, moved) ==
   LET c  == st.input[st.buf + 1]
       s0 == Store([st EXCEPT !.code = PtrTo(<<>>)], st.ptr, c)
   IN IF c = HASH /\ ~s0.in_color THEN OpenBranch(s0)
      ELSE IF s0.in_color /\ c # HASH THEN NameBranch(s0, c)
      ELSE IF ~s0.in_color THEN s0
      ELSE CloseBranch(s0, moved)

\* color.c:97-148, one iteration on the byte at buf
Body(st, moved) == NextLabel(BeforeNext(st, moved), moved)

\* color.c:150-152, the terminator and the string handed to the caller.  What
\* a caller reads through a null pointer is not defined.
Returned(st) ==
   IF st.new = NullAddr THEN <<JUNK>> ELSE CStr(Store(st, st.ptr, NUL).mem)

\* color.c:96, the loop taken n times or until the end of the string.  The
\* iterations are split in halves so that the evaluation stays shallow.
RECURSIVE Iterations(_, _)
Iterations(st, n) ==
   IF n = 0 \/ st.buf >= Len(st.input) THEN st
   ELSE IF n = 1 THEN Body(st, FALSE)
   ELSE Iterations(Iterations(st, n \div 2), n - (n \div 2))

\* The locals when the loop of parser() ends, for a process that survives
\* whatever the call does.  A byte is read at most twice (once more after a
\* rewind), which bounds the iterations.
parserEnd(nocolor, str) ==
   Iterations(parserInit(nocolor, str), 2 * Len(str) + 1)

\* parser() as a function of its argument and of NO_COLOR
parser(nocolor, str) == Returned(parserEnd(nocolor, str))

----------------------------------------------------------------------------
(* The strings parser() is run on *)

\* Bounds of the model
MaxPieces == 4
MaxText   == 2
MaxReps   == 9
MaxOver   == 2

RED == <<"R", "E", "D">>
RST == <<"R", "S", "T">>
BOLD == <<"B", "O", "L", "D">>

\* What the short inputs are made of: the delimiter, a table name, a proper
\* prefix of it, a byte that is in no name, the name in lower case, and the
\* byte the codes start with.
Pieces == {<<HASH>>, RED, <<"R", "E">>, <<"x">>, <<"r", "e", "d">>, <<ESC>>}

TextPieces == {<<"x">>, RED, <<ESC>>}

RECURSIVE Concats(_, _)
Concats(pieces, n) ==
   IF n = 0 THEN {<<>>}
   ELSE LET S == Concats(pieces, n - 1)
        IN S \cup {s \o p : s \in S, p \in pieces}

RECURSIVE Repeat(_, _)
Repeat(s, n) ==
   IF n = 0 THEN <<>>
   ELSE IF n = 1 THEN s
   ELSE Repeat(s, n \div 2) \o Repeat(s, n - (n \div 2))

HasHash(s) == \E i \in 1..Len(s) : s[i] = HASH

Names == {colors[i].color : i \in 1..Len(colors)}

\* The code the table binds to a name of the table
CodeFor(n) == colors[CHOOSE i \in 1..Len(colors) : colors[i].color = n].code

\* #NAME#
Tok(n) == <<HASH>> \o n \o <<HASH>>

\* Strings without '#', the text around tokens
Texts == Concats(TextPieces, MaxText)

\* Names the table does not hold: the empty name, names in no relation to a
\* table name, a lower-case variant, a proper prefix and an extension
UnknownNames == {<<>>, <<"U">>, <<"U","N","K","N","O","W","N">>,
                 <<"r", "e", "d">>, <<"R", "E">>, <<"R", "E", "D", "D">>,
                 Repeat(<<"a">>, MAX_COLOR_NAME - 1)}

\* every concatenation of at most MaxPieces pieces
ShortInputs == Concats(Pieces, MaxPieces)

\* #N#text#RST# for every name of the table
TokenInputs == {Tok(n) \o t \o Tok(RST) : n \in Names, t \in Texts}

\* #N1##N2#, two tokens with nothing between them
AdjacentInputs == {Tok(a) \o Tok(b) : a \in Names, b \in Names}

\* #UNKNOWN##KNOWN#text#RST#
AmbiguousInputs ==
   {Tok(u) \o Tok(k) \o t \o Tok(RST) :
       u \in UnknownNames, k \in Names, t \in {<<>>, <<"x">>}}

\* n times #RED#x#RST#
Unit == Tok(RED) \o <<"x">> \o Tok(RST)

RepeatInputs == {Repeat(Unit, n) : n \in 0..MaxReps}

\* an opening '#' followed by about MAX_COLOR_NAME bytes of name, closed or not
LongInputs ==
   {p \o <<HASH>> \o Repeat(<<"a">>, n) \o t :
       p \in {<<>>, <<"x">>},
       n \in (MAX_COLOR_NAME - 2)..(MAX_COLOR_NAME + MaxOver),
       t \in {<<>>, <<HASH>>, <<HASH, "x">>}}

\* text without '#', up to the second growth of the output block
PlainInputs == {Repeat(<<"x">>, n) : n \in 0..(2 * ALLOC_SZ + MaxOver)}

\* text up to the end of the block or nearly, then a token: the block has
\* room for the token's bytes, for its code it has or has not
StraddleInputs ==
   {Repeat(<<"x">>, n) \o Tok(k) \o t :
       n \in (ALLOC_SZ - 12)..(ALLOC_SZ - 1),
       k \in {RED, RST},
       t \in {<<>>, <<"x">>}}

\* a token with an empty name, "##", before a token, and behind an unknown
\* name, "#XXXX##text"
EmptyNameInputs ==
   {p \o <<HASH, HASH>> \o n \o <<HASH>> \o t :
       p \in {<<>>, <<"x">>}, n \in Names, t \in {<<>>, <<"x">>}}
   \cup {<<HASH>> \o u \o <<HASH, HASH>> \o t :
            u \in {<<"X", "X", "X", "X">>, <<"U">>},
            t \in {<<>>, <<"x">>, <<"t", "e", "x", "t">>}}

Inputs == ShortInputs \cup TokenInputs \cup AdjacentInputs
             \cup AmbiguousInputs \cup RepeatInputs \cup LongInputs
             \cup PlainInputs \cup StraddleInputs \cup EmptyNameInputs

----------------------------------------------------------------------------
(* The state machine: parser() entered on some string, in some mode *)

\* No call of printc() or printc_xtra() is in progress or was made.
NoCall ==
   /\ call = NULL
   /\ pstr = NULL
   /\ pbuf = NULL
   /\ plen = 0
   /\ files = [fp \in {"stdout", "stderr"} |-> <<>>]

\* No command is running: nothing to read, nothing requested.
NoCommand ==
   /\ stdin = <<>>
   /\ rpos = 0
   /\ submit = <<>>
   /\ trace = <<>>
   /\ fib_sleep = 0 - 1
   /\ state = 0
   /\ err = 0
   /\ calc_err = 0
   /\ ret = 0 - 1

\* main() is past its start-up, in a process whose environment plays no part.
Started ==
   /\ mainpc = "dispatcher"
   /\ env = NULL
   /\ tty = TRUE
   /\ home = TRUE
   /\ argc = 2
   /\ colorsSet = TRUE

Init ==
   /\ NO_COLOR \in BOOLEAN
   /\ NoCommand
   /\ nomem = FALSE
   /\ NoCall
   /\ Started
   /\ input \in Inputs
   /\ seen = [i \in 1..Len(input) |-> 0]
   /\ buf = 0
   /\ new = MallocAddr
   /\ mem = [i \in 1..ALLOC_SZ |-> JUNK]
   /\ ptr = MallocAddr
   /\ sptr = MallocAddr
   /\ color = [i \in 1..MAX_COLOR_NAME |-> JUNK]
   /\ cptr = 0
   /\ in_color = FALSE
   /\ alloc = ALLOC_SZ
   /\ code = PtrTo(<<>>)
   /\ ub = FALSE
   /\ pc = "loop"
   /\ out = <<>>

\* The locals after one iteration
Iterate(n) ==
   /\ buf' = n.buf
   /\ new' = n.new
   /\ mem' = n.mem
   /\ ptr' = n.ptr
   /\ sptr' = n.sptr
   /\ color' = n.color
   /\ cptr' = n.cptr
   /\ in_color' = n.in_color
   /\ alloc' = n.alloc
   /\ code' = n.code
   /\ ub' = n.ub
   /\ seen' = [seen EXCEPT ![buf + 1] = @ + 1]
   /\ UNCHANGED <<NO_COLOR, input, pc, out, nomem, printVars, mainVars,
                  cmdVars>>

\* color.c:96, `while (*buf)' finds a byte
AtByte == pc = "loop" /\ buf < Len(input)

\* color.c:101-105
OpenToken ==
   /\ AtByte
   /\ input[buf + 1] = HASH /\ ~in_color
   /\ \E moved \in BOOLEAN : Iterate(Body(St, moved))

\* color.c:106-109
NameByte ==
   /\ AtByte
   /\ in_color /\ input[buf + 1] # HASH
   /\ \E moved \in BOOLEAN : Iterate(Body(St, moved))

\* color.c:110-112
PlainByte ==
   /\ AtByte
   /\ ~in_color /\ input[buf + 1] # HASH
   /\ \E moved \in BOOLEAN : Iterate(Body(St, moved))

\* color.c:114-143
CloseToken ==
   /\ AtByte
   /\ in_color /\ input[buf + 1] = HASH
   /\ \E moved \in BOOLEAN : Iterate(Body(St, moved))

\* color.c:150-152, the end of the string
Return ==
   /\ pc = "loop" /\ buf = Len(input)
   /\ LET s == Store(St, ptr, NUL)
      IN /\ mem' = s.mem
         /\ ub' = s.ub
         /\ out' = Returned(St)
   /\ pc' = "done"
   /\ UNCHANGED <<NO_COLOR, input, buf, new, ptr, sptr, color, cptr,
                  in_color, alloc, code, seen, nomem, printVars, mainVars,
                  cmdVars>>

\* After a store outside an array the process may die at any point: a
\* segmentation fault, or the stack protector's abort.
Abort ==
   /\ pc = "loop" /\ ub
   /\ pc' = "aborted"
   /\ UNCHANGED <<NO_COLOR, nomem, parserVars, printVars, mainVars, cmdVars>>

Next == OpenToken \/ NameByte \/ PlainByte \/ CloseToken \/ Return \/ Abort

Spec == Init /\ [][Next]_vars

----------------------------------------------------------------------------
(* printc() and printc_xtra(), color.c:155-224 *)

\* '\n'
LF == "LF"

\* color.h:27-33
MT_ERROR   == 0
MT_WARNING == 1
MT_INFO    == 2
MT_CONFIRM == 3
MT_SUCCESS == 4

\* A buggy table: the label of MT_CONFIRM is the name of its colour.
tstrShortLabel(type) ==
   CASE type = MT_ERROR ->
         <<"[", "#", "E", "R", "R", "O", "R", "#", "E", "R", "R", "O",
           "R", "#", "R", "S", "T", "#", "]", " ">>
     [] type = MT_WARNING ->
         <<"[", "#", "W", "A", "R", "N", "I", "N", "G", "#", "W", "A",
           "R", "N", "I", "N", "G", "#", "R", "S", "T", "#", "]", " ">>
     [] type = MT_INFO ->
         <<"[", "#", "I", "N", "F", "O", "#", "I", "N", "F", "O", "#",
           "R", "S", "T", "#", "]", " ">>
     [] type = MT_CONFIRM ->
         <<"[", "#", "C", "O", "N", "F", "I", "R", "M", "#", "C", "O",
           "N", "F", "I", "R", "M", "#", "R", "S", "T", "#", "]", " ">>
     [] type = MT_SUCCESS ->
         <<"[", "#", "S", "U", "C", "C", "E", "S", "S", "#", "O", "K",
           "#", "R", "S", "T", "#", "]", " ">>
     [] OTHER -> <<>>

\* color.c:164-182, the prefix of a message type
tstr(type) ==
   CASE type = MT_ERROR ->
         <<"[", "#", "E", "R", "R", "O", "R", "#", "E", "R", "R", "O",
           "R", "#", "R", "S", "T", "#", "]", " ">>
     [] type = MT_WARNING ->
         <<"[", "#", "W", "A", "R", "N", "I", "N", "G", "#", "W", "A",
           "R", "N", "I", "N", "G", "#", "R", "S", "T", "#", "]", " ">>
     [] type = MT_INFO ->
         <<"[", "#", "I", "N", "F", "O", "#", "I", "N", "F", "O", "#",
           "R", "S", "T", "#", "]", " ">>
     [] type = MT_CONFIRM ->
         <<"[", "#", "C", "O", "N", "F", "I", "R", "M", "#", "C", "O",
           "N", "F", "I", "R", "M", "A", "T", "I", "O", "N", "#", "R",
           "S", "T", "#", "]", " ">>
     [] type = MT_SUCCESS ->
         <<"[", "#", "S", "U", "C", "C", "E", "S", "S", "#", "O", "K",
           "#", "R", "S", "T", "#", "]", " ">>
     [] OTHER -> <<>>

\* What vasprintf() makes of a format and its arguments, for the conversions
\* the calls of the model use: %s (a string), %c (a byte) and %% (a '%').
\* Every other byte of the format is copied.

\* A conversion starts at byte i of the format: a '%' that is not the second
\* byte of a conversion itself.
RECURSIVE ConversionAt(_, _)
ConversionAt(fmt, i) ==
   /\ fmt[i] = "%"
   /\ i < Len(fmt)
   /\ fmt[i + 1] \in {"s", "c", "%"}
   /\ ~(i > 1 /\ ConversionAt(fmt, i - 1))

\* The number of arguments the conversions before byte i have taken
ArgsBefore(fmt, i) ==
   Cardinality({j \in 1..(i - 1) : ConversionAt(fmt, j) /\ fmt[j + 1] # "%"})

\* What byte i of the format adds to the string
Converted(fmt, args, i) ==
   IF ConversionAt(fmt, i)
   THEN IF fmt[i + 1] = "%" THEN <<"%">> ELSE args[ArgsBefore(fmt, i) + 1]
   ELSE IF i > 1 /\ ConversionAt(fmt, i - 1) THEN <<>>
   ELSE <<fmt[i]>>

\* Bytes lo..hi of the format, converted; split in halves so that the
\* evaluation stays shallow
RECURSIVE vformatFrom(_, _, _, _)
vformatFrom(fmt, args, lo, hi) ==
   IF lo > hi THEN <<>>
   ELSE IF lo = hi THEN Converted(fmt, args, lo)
   ELSE LET mid == (lo + hi) \div 2
        IN vformatFrom(fmt, args, lo, mid)
              \o vformatFrom(fmt, args, mid + 1, hi)

vformat(fmt, args) == vformatFrom(fmt, args, 1, Len(fmt))

\* vasprintf(&buf, fmt, ap), color.c:189 and 212: the string and its length,
\* or -1 when the string cannot be built; glibc then leaves buf as it was,
\* the null pointer, or sets it to the null pointer.
vasprintf(fmt, args, fails) ==
   IF fails THEN [buf |-> NULL, len |-> 0 - 1]
   ELSE [buf |-> PtrTo(vformat(fmt, args)), len |-> Len(vformat(fmt, args))]

\* A buggy test of vasprintf()'s result: `if (len == 0)'.
AfterVasprintfZero(n) == IF n = 0 THEN "out_free" ELSE "parser"

\* color.c:191-192 and 214-215, where the call goes after vasprintf()
AfterVasprintf(n) == IF n = 0 - 1 THEN "out_free" ELSE "parser"

\* A buggy call: parser() is run on the format, not on what vasprintf() built.
parserArgFormat(fmt, built) == PtrTo(fmt)

\* color.c:194 and 217, the argument of parser(): buf
parserArg(fmt, built) == built

\* The format vasprintf() is given: str in printc_xtra(), fmt in printc()
Format == IF call[1].fn = "printc_xtra" THEN pstr[1] ELSE call[1].fmt

\* color.c:164-186, printc_xtra() up to the string it builds
Prefix ==
   /\ pc = "entry" /\ call # NULL /\ call[1].fn = "printc_xtra"
   /\ pstr' = PtrTo(tstr(call[1].type) \o call[1].fmt)
   /\ pc' = "vasprintf"
   /\ UNCHANGED <<NO_COLOR, nomem, parserVars, call, pbuf, plen, files,
                  mainVars, cmdVars>>

\* color.c:188-192 and 211-215
Vasprintf ==
   /\ call # NULL
   /\ \/ pc = "entry" /\ call[1].fn = "printc"
      \/ pc = "vasprintf"
   /\ \E fails \in BOOLEAN :
         LET r == vasprintf(Format, call[1].args, fails)
         IN /\ pbuf' = r.buf
            /\ plen' = r.len
            /\ pc' = AfterVasprintf(r.len)
   /\ UNCHANGED <<NO_COLOR, nomem, parserVars, call, pstr, files, mainVars,
                  cmdVars>>

\* color.c:194 and 217 with 88-94: parser() is entered.  A null argument is
\* read at `while (*buf)', which is undefined behaviour.
CallParser ==
   /\ pc = "parser"
   /\ \E reuse \in BOOLEAN :
         LET arg == parserArg(Format, pbuf)
             n   == parserReentry(St, IF arg = NULL THEN <<>> ELSE arg[1],
                                  reuse)
         IN /\ input' = n.input
            /\ buf' = n.buf
            /\ new' = n.new
            /\ mem' = n.mem
            /\ ptr' = n.ptr
            /\ sptr' = n.sptr
            /\ color' = n.color
            /\ cptr' = n.cptr
            /\ in_color' = n.in_color
            /\ alloc' = n.alloc
            /\ code' = n.code
            /\ ub' = (arg = NULL)
            /\ seen' = [i \in 1..Len(n.input) |-> 0]
   /\ out' = <<>>
   /\ pc' = "loop"
   /\ UNCHANGED <<NO_COLOR, nomem, printVars, mainVars, cmdVars>>

\* color.c:195-197 and 218-220: the string parser() returned is written in
\* one call and freed
Write ==
   /\ pc = "done" /\ call # NULL
   /\ files' = [files EXCEPT ![call[1].fp] = Append(@, out)]
   /\ pc' = "out_free"
   /\ UNCHANGED <<NO_COLOR, nomem, parserVars, call, pstr, pbuf, plen,
                  mainVars, cmdVars>>

\* color.c:199-202 and 222-224
OutFree ==
   /\ pc = "out_free"
   /\ pstr' = NULL
   /\ pbuf' = NULL
   /\ pc' = "returned"
   /\ UNCHANGED <<NO_COLOR, nomem, parserVars, call, plen, files, mainVars,
                  cmdVars>>

\* The calls: the arguments as a record
printc_xtra(fp, type, fmt, args) ==
   [fn |-> "printc_xtra", fp |-> fp, type |-> type, fmt |-> fmt,
    args |-> args]

\* color.h:40-44
printec(fmt, args) == printc_xtra("stderr", MT_ERROR, fmt, args)
printwc(fmt, args) == printc_xtra("stdout", MT_WARNING, fmt, args)
printcc(fmt, args) == printc_xtra("stdout", MT_CONFIRM, fmt, args)
printsc(fmt, args) == printc_xtra("stdout", MT_SUCCESS, fmt, args)
printic(fmt, args) == printc_xtra("stdout", MT_INFO, fmt, args)

\* color.c:204 and 218: printc() has no message type and writes to stdout
printc(fmt, args) ==
   [fn |-> "printc", fp |-> "stdout", type |-> MT_SUCCESS + 1, fmt |-> fmt,
    args |-> args]

GREEN == <<"G", "R", "E", "E", "N">>

\* Argument values: plain text, whole tokens (itsa.c:233-264 and 1049-1051
\* pass "#GREEN#" and "#RST#" this way), parts of a token, a conversion
ArgStrings ==
   {<<>>, <<"x">>, Tok(GREEN), Tok(RST), <<HASH>>, RED, <<"%", "s">>,
    <<HASH>> \o RED}

\* Formats and their arguments: no conversion, one, two, and a token whose
\* parts come from the format and from an argument
FormatsAndArgs ==
   {<<fmt, <<>>>> :
       fmt \in {<<>>, <<"1", "0", "0", "%", "%", LF>>,
                <<"x", HASH>> \o Repeat(<<"a">>, MAX_COLOR_NAME) \o <<HASH>>}}
   \cup {<<fmt, <<a>>>> :
       fmt \in {<<"%", "s">>, Tok(BOLD) \o <<"%", "s">> \o Tok(RST) \o <<LF>>},
       a \in ArgStrings}
   \cup {<<<<HASH, "%", "s", HASH, "x", "%", "s">>, <<a, b>>>> :
       a \in ArgStrings, b \in ArgStrings}

\* printc(), the five macros of color.h, and printc_xtra() with a type that
\* is none of the five
Calls ==
   UNION {{printc(fa[1], fa[2]), printec(fa[1], fa[2]), printwc(fa[1], fa[2]),
           printcc(fa[1], fa[2]), printsc(fa[1], fa[2]),
           printic(fa[1], fa[2]),
           printc_xtra("stderr", MT_SUCCESS + 1, fa[1], fa[2])} :
          fa \in FormatsAndArgs}

\* parser() was not called yet.
ParserIdle ==
   /\ input = <<>>
   /\ buf = 0
   /\ new = NullAddr
   /\ mem = <<>>
   /\ ptr = NullAddr
   /\ sptr = NullAddr
   /\ color = <<>>
   /\ cptr = 0
   /\ in_color = FALSE
   /\ alloc = 0
   /\ code = NULL
   /\ ub = FALSE
   /\ out = <<>>
   /\ seen = <<>>

\* One call of printc() or printc_xtra(), after start-up, in some mode
PrintInit ==
   /\ NO_COLOR \in BOOLEAN
   /\ NoCommand
   /\ nomem = FALSE
   /\ Started
   /\ ParserIdle
   /\ call \in {PtrTo(c) : c \in Calls}
   /\ pstr = NULL
   /\ pbuf = NULL
   /\ plen = 0
   /\ files = [fp \in {"stdout", "stderr"} |-> <<>>]
   /\ pc = "entry"

PrintNext ==
   \/ Prefix \/ Vasprintf \/ CallParser
   \/ OpenToken \/ NameByte \/ PlainByte \/ CloseToken \/ Return \/ Abort
   \/ Write \/ OutFree

PrintSpec == PrintInit /\ [][PrintNext]_vars

----------------------------------------------------------------------------
(* parser() in a process that can run out of memory *)

\* Strings that need no growth of the block, one growth at `next', and a
\* growth for the copy of a code
AllocInputs ==
   {<<>>, <<"x">>, Tok(RED), Tok(<<"U">>)}
   \cup {Repeat(<<"x">>, n) : n \in (ALLOC_SZ - 2)..(ALLOC_SZ + 1)}
   \cup {Repeat(<<"x">>, ALLOC_SZ - 8) \o Tok(RED) \o <<"x">>}

\* printc("%s", a) has built its string and is about to call parser().
AllocInit ==
   /\ NO_COLOR \in BOOLEAN
   /\ NoCommand
   /\ nomem = FALSE
   /\ Started
   /\ ParserIdle
   /\ \E a \in AllocInputs :
         /\ call = PtrTo(printc(<<"%", "s">>, <<a>>))
         /\ pbuf = PtrTo(a)
         /\ plen = Len(a)
   /\ pstr = NULL
   /\ files = [fp \in {"stdout", "stderr"} |-> <<>>]
   /\ pc = "parser"

\* The memory of the system runs out, before parser() asks for its block or
\* while it is at work.
Exhaust ==
   /\ pc \in {"parser", "loop"} /\ ~nomem
   /\ nomem' = TRUE
   /\ UNCHANGED <<NO_COLOR, pc, parserVars, printVars, mainVars, cmdVars>>

AllocNext ==
   \/ Exhaust
   \/ CallParser
   \/ OpenToken \/ NameByte \/ PlainByte \/ CloseToken \/ Return \/ Abort
   \/ Write \/ OutFree

AllocSpec == AllocInit /\ [][AllocNext]_vars

----------------------------------------------------------------------------
(* main(), itsa.c:2496-2549, and the colouring mode *)

\* The values of the environment variable that selects the colouring mode:
\* not set, empty, one byte, and longer values
EnvValues ==
   {NULL, PtrTo(<<>>)}
   \cup {PtrTo(<<c>>) : c \in {"t", "T", "y", "Y", "f", "F", "n", "N", "x"}}
   \cup {PtrTo(<<"t", "r", "u", "e">>), PtrTo(<<"n", "o">>),
         PtrTo(<<"a", "t">>)}

\* The colouring mode of a value of the environment variable: its first byte
\* decides
ColorMode(e) ==
   IF e = NULL \/ e[1] = <<>> THEN "AUTO"
   ELSE IF e[1][1] \in {"t", "T", "y", "Y"} THEN "ON"
   ELSE IF e[1][1] \in {"f", "F", "n", "N"} THEN "OFF"
   ELSE "AUTO"

\* set_colors(), called at itsa.c:2518: the value it gives NO_COLOR
set_colors(e, terminal) ==
   ~(ColorMode(e) = "ON" \/ (ColorMode(e) = "AUTO" /\ terminal))

\* The process starts: main() evaluates the initialiser of cfg, which calls
\* get_conf_dir() (itsa.c:2508).  NO_COLOR has the value its definition gives
\* it.
MainInit ==
   /\ NO_COLOR \in BOOLEAN
   /\ NoCommand
   /\ nomem = FALSE
   /\ ParserIdle
   /\ NoCall
   /\ pc = "idle"
   /\ mainpc = "get_conf_dir"
   /\ env \in EnvValues
   /\ tty \in BOOLEAN
   /\ home \in BOOLEAN
   /\ argc \in {1, 2}
   /\ colorsSet = FALSE

\* main() or a function it calls makes the call c and goes to `then' when
\* the call is over.
MainCalls(c, then) ==
   /\ pc \in {"idle", "returned"}
   /\ call' = PtrTo(c)
   /\ plen' = 0
   /\ pc' = "entry"
   /\ mainpc' = then
   /\ UNCHANGED <<NO_COLOR, nomem, parserVars, pstr, pbuf, files, env, tty,
                  home, argc, colorsSet, cmdVars>>

\* main() goes to `then' without a call.
MainGoes(then) ==
   /\ pc \in {"idle", "returned"}
   /\ mainpc' = then
   /\ UNCHANGED <<NO_COLOR, nomem, pc, parserVars, printVars, env, tty, home,
                  argc, colorsSet, cmdVars>>

\* itsa.c:2431-2455 by way of itsa.c:2508
GetConfDir ==
   /\ mainpc = "get_conf_dir"
   /\ IF home THEN MainGoes("argc")
      ELSE MainCalls(printec(
         <<"g", "e", "t", "_", "c", "o", "n", "f", "_", "d", "i", "r",
           "/", "o", "p", "e", "n", ":", " ", "C", "a", "n", "'", "t",
           " ", "o", "p", "e", "n", " ", "%", "s", LF>>,
         <<<<"/", "h">>>>), "exit")

\* itsa.c:2511-2514; disp_usage() writes plain text with printf()
ArgcCheck ==
   /\ mainpc = "argc"
   /\ IF argc < 2 THEN MainGoes("exit") ELSE MainGoes("set_colors")

\* itsa.c:2518
SetColors ==
   /\ mainpc = "set_colors"
   /\ NO_COLOR' = set_colors(env, tty)
   /\ colorsSet' = TRUE
   /\ mainpc' = "read_config"
   /\ UNCHANGED <<nomem, pc, parserVars, printVars, env, tty, home, argc,
                  cmdVars>>

\* itsa.c:2520-2524 with 2354-2371: the configuration is read, or not
ReadConfig ==
   /\ mainpc = "read_config"
   /\ \/ MainGoes("print_api_info")
      \/ MainCalls(printec(
            <<"r", "e", "a", "d", "_", "c", "o", "n", "f", "i", "g", ":",
              " ", "U", "n", "a", "b", "l", "e", " ", "t", "o", " ", "o",
              "p", "e", "n", " ", "c", "o", "n", "f", "i", "g", " ", ":",
              " ", "%", "s", LF>>,
            <<<<"/", "h", "/", "c">>>>), "exit")

\* itsa.c:2340
PrintApiInfo ==
   /\ mainpc = "print_api_info"
   /\ MainCalls(printic(<<"*", "*", "*", LF>>, <<>>), "using")

\* itsa.c:2341-2342
PrintApiUsing ==
   /\ mainpc = "using"
   /\ \E is_prod_api \in BOOLEAN :
         MainCalls(printic(
            <<"*", "*", "*", " ", "U", "s", "i", "n", "g", " ", "%", "s",
              " ", "A", "P", "I", LF>>,
            <<IF is_prod_api
              THEN <<"#", "R", "E", "D", "#", "P", "R", "O", "D", "U", "C",
                     "T", "I", "O", "N", "#", "R", "S", "T", "#">>
              ELSE <<"#", "T", "A", "N", "G", "#", "T", "E", "S", "T", "#",
                     "R", "S", "T", "#">>>>), "stars")

\* itsa.c:2343-2351; BUSINESS_ID is not set before a business is chosen, and
\* the last line is written with printf()
PrintApiEnd ==
   /\ mainpc = "stars"
   /\ MainCalls(printic(<<"*", "*", "*", LF>>, <<>>), "mtd_init")

\* itsa.c:2535-2539: mtd_init() fails, or main() goes on to the command
MtdInit ==
   /\ mainpc = "mtd_init"
   /\ \/ MainGoes("dispatcher")
      \/ MainCalls(printec(
            <<"m", "t", "d", "_", "i", "n", "i", "t", ":", " ", "%", "s", LF>>,
            <<<<"e">>>>), "exit")

\* What the commands print: a message of each of the other types, a line
\* whose colours are arguments (itsa.c:1049-1051), and a value with '#'
CommandCalls ==
   {printwc(<<"w", LF>>, <<>>), printcc(<<"c", LF>>, <<>>),
    printsc(<<"s", LF>>, <<>>),
    printc(<<"%", "s", "x", "%", "s", LF>>, <<Tok(GREEN), Tok(RST)>>),
    printc(<<"%", "s">>,
           <<<<HASH>> \o Repeat(<<"a">>, MAX_COLOR_NAME) \o <<HASH>>>>)}

\* itsa.c:2541, a command and its output
Dispatcher ==
   /\ mainpc = "dispatcher"
   /\ colorsSet
   /\ \E c \in CommandCalls : MainCalls(c, "exit")

\* itsa.c:2442, 2513 and 2548: exit()
Exit ==
   /\ mainpc = "exit"
   /\ MainGoes("exited")

MainNext ==
   \/ GetConfDir \/ ArgcCheck \/ SetColors \/ ReadConfig \/ PrintApiInfo
   \/ PrintApiUsing \/ PrintApiEnd \/ MtdInit \/ Dispatcher \/ Exit
   \/ Prefix \/ Vasprintf \/ CallParser
   \/ OpenToken \/ NameByte \/ PlainByte \/ CloseToken \/ Return \/ Abort
   \/ Write \/ OutFree

MainSpec == MainInit /\ [][MainNext]_vars

----------------------------------------------------------------------------
(* Calls of printc() and printc_xtra() one after the other *)

\* Bound of the model: the calls that write
MaxCalls == 2

\* What the calls hand to parser(): a token left open at the end, bytes of a
\* name before a '#', an unknown name, a proper prefix of the name of the
\* call before, text that makes the block grow, tokens, a name too long for
\* color[], nothing
SeqInputs ==
   {<<HASH>> \o RED, RED \o <<HASH, "x">>, Tok(<<"U">>) \o <<"x">>,
    Tok(<<"R", "E">>), Repeat(<<"x">>, ALLOC_SZ + 2),
    Tok(RED) \o <<"x">> \o Tok(RST),
    <<HASH>> \o Repeat(<<"a">>, MAX_COLOR_NAME) \o <<HASH>>, <<>>}

SeqCalls ==
   {printc(<<"%", "s">>, <<x>>) : x \in SeqInputs}
      \cup {printec(<<"%", "s">>, <<<<HASH>> \o RED>>)}

\* The calls that have written their string
Writes == Len(files["stdout"]) + Len(files["stderr"])

\* The first call of the process, after start-up, in some mode
SeqInit ==
   /\ NO_COLOR \in BOOLEAN
   /\ NoCommand
   /\ nomem = FALSE
   /\ Started
   /\ ParserIdle
   /\ call \in {PtrTo(c) : c \in SeqCalls}
   /\ pstr = NULL
   /\ pbuf = NULL
   /\ plen = 0
   /\ files = [fp \in {"stdout", "stderr"} |-> <<>>]
   /\ pc = "entry"

\* A call has returned and the command makes the next one (as itsa.c:2340-2343
\* does).
NextCall ==
   /\ pc = "returned"
   /\ Writes < MaxCalls
   /\ \E c \in SeqCalls : MainCalls(c, mainpc)

SeqNext ==
   \/ NextCall
   \/ Prefix \/ Vasprintf \/ CallParser
   \/ OpenToken \/ NameByte \/ PlainByte \/ CloseToken \/ Return \/ Abort
   \/ Write \/ OutFree

SeqSpec == SeqInit /\ [][SeqNext]_vars

----------------------------------------------------------------------------
(* The commands: what they read and what they request *)

\* Everything a command leaves alone but its own locals and its position
restVars == <<NO_COLOR, pc, nomem, parserVars, printVars, env, tty, home,
              argc, colorsSet>>

\* The events of the trace: a request to the library or a call of a function
\* of itsa.c with its result, a sleep with its seconds, a call that prints
\* with its format, a run of the editor, a call of fgets() with its result
Request(fn, e)  == [ev |-> "request", what |-> fn, val |-> e, s |-> NULL]
Called(fn, e)   == [ev |-> "call", what |-> fn, val |-> e, s |-> NULL]
Sleep(n)        == [ev |-> "sleep", what |-> "sleep", val |-> n, s |-> NULL]
Prints(fn, f) == [ev |-> fn, what |-> f, val |-> 0, s |-> NULL]
Editor          == [ev |-> "editor", what |-> "posix_spawnp", val |-> 0,
                    s |-> NULL]
Fgets(size, r)  == [ev |-> "fgets", what |-> "submit", val |-> size, s |-> r]

\* itsa.c:766, an error code of the library, which is not part of this
\* repository: any positive number does.  A function of the library returns 0
\* or minus a code; the third value stands for every other code.
MTD_ERR_REQUEST == 2

ErrCodes == {0, 0 - MTD_ERR_REQUEST, 0 - (MTD_ERR_REQUEST + 1)}

\* fgets(submit, size, stdin), itsa.c:890, 901 and 1281: at most size - 1
\* bytes, up to and with the first newline; NULL at end-of-file when no byte
\* was read.  What is left of a longer line stays in standard input.
fgets(size, in, pos) ==
   IF pos >= Len(in) THEN [s |-> NULL, rpos |-> pos]
   ELSE LET ends == {i \in (pos + 1)..Len(in) :
                        /\ \/ i = Len(in)
                           \/ in[i] = LF
                           \/ i = pos + (size - 1)
                        /\ i <= pos + (size - 1)
                        /\ \A j \in (pos + 1)..(i - 1) : in[j] # LF}
            end  == CHOOSE i \in ends : TRUE
        IN [s |-> PtrTo(SubSeq(in, pos + 1, end)), rpos |-> end]

\* A buggy back-off: the sleep doubles.
next_fib_doubles(last, st) ==
   IF last = 0 - 1 THEN [Fn |-> 1, state |-> 0]
   ELSE [Fn |-> 2 * last, state |-> last]

\* itsa.c:215-231; the result and what is left in *state
next_fib(last, st) ==
   IF last = 0 - 1 THEN [Fn |-> 1, state |-> 0]
   ELSE IF last = 0 THEN [Fn |-> 1, state |-> st]
   ELSE [Fn |-> st + last, state |-> last]

\* The command returns r to main().
CmdReturns(r) ==
   /\ ret' = r
   /\ mainpc' = "returned"

----------------------------------------------------------------------------
(* get_calculation_meta(), itsa.c:751-835 *)

\* itsa.c:764-770: the request, and the end of the function when it fails
\* with an error that is not retried or after the last retry
GcmRequest ==
   /\ mainpc = "again"
   /\ \E e \in ErrCodes :
         /\ err' = e
         /\ IF (e # 0 /\ e # 0 - MTD_ERR_REQUEST)
                  \/ (e = 0 - MTD_ERR_REQUEST /\ fib_sleep = 5)
            THEN /\ trace' = trace \o
                       <<Request("mtd_ic_sa_get_calculation_meta", e),
                         Prints("printec",
                            "Couldn't get calculation metadata. (%s)\n%s\n")>>
                 /\ calc_err' = 0 - 1
                 /\ mainpc' = "after_meta"
            ELSE /\ trace' = Append(trace,
                       Request("mtd_ic_sa_get_calculation_meta", e))
                 /\ calc_err' = calc_err
                 /\ mainpc' = IF e = 0 - MTD_ERR_REQUEST THEN "back_off"
                              ELSE "result"
   /\ UNCHANGED <<restVars, stdin, rpos, submit, fib_sleep, state, ret>>

\* itsa.c:771-778: the back-off before the request is made again
GcmBackOff ==
   /\ mainpc = "back_off"
   /\ LET n == next_fib(fib_sleep, state)
      IN /\ fib_sleep' = n.Fn
         /\ state' = n.state
         /\ trace' = trace \o
               <<Prints("printic",
                    "Trying to get calculation metadata again in #BOLD#%d#RST# second(s)\n"),
                 Sleep(n.Fn)>>
   /\ mainpc' = "again"
   /\ UNCHANGED <<restVars, stdin, rpos, submit, err, calc_err, ret>>

\* itsa.c:780-834: the metadata is shown, unless it reports errors
GcmResult ==
   /\ mainpc = "result"
   /\ \E errors \in BOOLEAN :
         IF errors
         THEN /\ trace' = Append(trace, Prints("printec",
                    "There was a problem with your calculation. Check the below messages\n        for ERROR's.\n"))
              /\ calc_err' = 0 - 1
         ELSE /\ trace' = Append(trace, Prints("printsc",
                    "Calculation Metadata for #BOLD#%s#RST#\n"))
              /\ calc_err' = 0
   /\ mainpc' = "after_meta"
   /\ UNCHANGED <<restVars, stdin, rpos, submit, fib_sleep, state, err, ret>>

----------------------------------------------------------------------------
(* crystallise(), itsa.c:837-936 *)

\* 'i agree' and the newline fgets() stores with it, itsa.c:902
IAgreeLine == <<"i", " ", "a", "g", "r", "e", "e", LF>>

\* itsa.c:891, the answer to the first prompt goes on
Accepts(r) == r.s # NULL /\ r.s[1][1] \in {"y", "Y"}

\* itsa.c:852-866: the arguments, and the intent to crystallise
CrIntent ==
   /\ mainpc = "crystallise"
   /\ IF argc < 3
      THEN /\ CmdReturns(0 - 1)
           /\ UNCHANGED <<trace, err>>
      ELSE \E e \in ErrCodes :
              /\ err' = e
              /\ IF e # 0
                 THEN /\ trace' = trace \o
                            <<Request("mtd_ic_cr_intent_to_crystallise", e),
                              Prints("printec",
                                 "Intent to Crystallise failed. (%s)\n%s\n")>>
                      /\ CmdReturns(ret)
                 ELSE /\ trace' = trace \o
                            <<Request("mtd_ic_cr_intent_to_crystallise", e),
                              Prints("printsc",
                                 "Intent to Crystallise calculationId: #BOLD#%s#RST#\n")>>
                      /\ mainpc' = "again"
                      /\ ret' = ret
   /\ UNCHANGED <<restVars, stdin, rpos, submit, fib_sleep, state, calc_err>>

\* itsa.c:875-879
CrCalculations ==
   /\ mainpc = "after_meta"
   /\ IF calc_err = 0
      THEN \E e \in {0, 0 - 1} :
              /\ err' = e
              /\ trace' = Append(trace,
                    Called("display_individual_calculations", e))
              /\ IF e # 0 THEN CmdReturns(ret)
                 ELSE mainpc' = "messages" /\ ret' = ret
      ELSE /\ mainpc' = "messages"
           /\ UNCHANGED <<trace, err, ret>>
   /\ UNCHANGED <<restVars, stdin, rpos, submit, fib_sleep, state, calc_err>>

\* itsa.c:880-883
CrMessages ==
   /\ mainpc = "messages"
   /\ \E e \in {0, 0 - 1} :
         /\ err' = e
         /\ trace' = Append(trace, Called("display_calculation_messages", e))
         /\ IF calc_err # 0 \/ e # 0 THEN CmdReturns(ret)
            ELSE mainpc' = "declaration" /\ ret' = ret
   /\ UNCHANGED <<restVars, stdin, rpos, submit, fib_sleep, state, calc_err>>

\* itsa.c:885-892: the declaration, the first prompt and its answer
CrFirstPrompt ==
   /\ mainpc = "declaration"
   /\ LET r == fgets(32, stdin, rpos)
      IN /\ trace' = trace \o
               <<Prints("printc", "CRYSTALLISATION_DECLARATION"),
                 Prints("printcc", "Crystallise this TAX return? (y/N)> "),
                 Fgets(32, r.s)>>
         /\ rpos' = r.rpos
         /\ submit' = IF r.s = NULL THEN submit ELSE r.s[1]
         /\ IF Accepts(r) THEN mainpc' = "final_check" /\ ret' = ret
            ELSE CmdReturns(0)
   /\ UNCHANGED <<restVars, stdin, fib_sleep, state, err, calc_err>>

\* itsa.c:894-903: the final check and its answer
CrFinalCheck ==
   /\ mainpc = "final_check"
   /\ LET r == fgets(32, stdin, rpos)
      IN /\ trace' = trace \o
               <<Prints("printic",
                    "About to #TANG#crystallise#RST# for #BOLD#%s#RST#\n\n"),
                 Prints("printic",
                    "As a final check measure, just enter 'i agree' at the\n"),
                 Prints("printic",
                    "prompt. Anything else will abandon the process.\n"),
                 Prints("printcc",
                    "Enter (without the quotes) 'i agree'> "),
                 Fgets(32, r.s)>>
         /\ rpos' = r.rpos
         /\ submit' = IF r.s = NULL THEN submit ELSE r.s[1]
         /\ IF r.s = NULL \/ r.s[1] # IAgreeLine THEN CmdReturns(0)
            ELSE mainpc' = "submit" /\ ret' = ret
   /\ UNCHANGED <<restVars, stdin, fib_sleep, state, err, calc_err>>

\* itsa.c:905-926: the submission
CrSubmit ==
   /\ mainpc = "submit"
   /\ \E e \in ErrCodes :
         /\ err' = e
         /\ IF e # 0
            THEN /\ trace' = trace \o
                       <<Request("mtd_ic_cr_crystallise", e),
                         Prints("printec",
                            "Failed to crystallise. (%s)\n%s\n")>>
                 /\ CmdReturns(ret)
            ELSE /\ trace' = trace \o
                       <<Request("mtd_ic_cr_crystallise", e),
                         Prints("printsc", "Crystallisation done.\n")>>
                 /\ CmdReturns(0)
   /\ UNCHANGED <<restVars, stdin, rpos, submit, fib_sleep, state, calc_err>>

\* Bound of the model: the lines of standard input
MaxLines == 2

\* A line of 31 bytes or more that starts with 'y' and ends with 'i agree'
LongLine ==
   <<"y">> \o Repeat(<<"x">>, 30) \o <<"i", " ", "a", "g", "r", "e", "e">>

\* Answers: yes in three forms, no, nothing, the agreement, the agreement
\* with another first letter and with a byte behind it, and the long line
CrAnswers ==
   {<<"y">>, <<"Y">>, <<"y", "e", "s">>, <<"n">>, <<>>,
    <<"i", " ", "a", "g", "r", "e", "e">>,
    <<"I", " ", "a", "g", "r", "e", "e">>,
    <<"i", " ", "a", "g", "r", "e", "e", " ">>,
    LongLine}

\* At most n lines of a set of answers, the last one with or without its
\* newline
RECURSIVE LinesOf(_, _)
LinesOf(answers, n) ==
   IF n = 0 THEN {<<>>}
   ELSE LET S == LinesOf(answers, n - 1)
        IN S \cup {a \o <<LF>> \o s : a \in answers, s \in S}
             \cup {a : a \in answers}

\* crystallise() is called by the dispatcher (itsa.c:2479), with or without
\* a tax year, with some standard input, and with whatever the stack holds in
\* the place of `state'.
CrystalInit ==
   /\ NO_COLOR = FALSE
   /\ nomem = FALSE
   /\ ParserIdle
   /\ NoCall
   /\ pc = "idle"
   /\ mainpc = "crystallise"
   /\ env = NULL
   /\ tty = TRUE
   /\ home = TRUE
   /\ argc \in {2, 3}
   /\ colorsSet = TRUE
   /\ stdin \in LinesOf(CrAnswers, MaxLines)
   /\ rpos = 0
   /\ submit = <<>>
   /\ trace = <<>>
   /\ fib_sleep = 0 - 1
   /\ state \in {0, 8}
   /\ err = 0
   /\ calc_err = 0
   /\ ret = 0 - 1

CrystalNext ==
   \/ CrIntent \/ GcmRequest \/ GcmBackOff \/ GcmResult
   \/ CrCalculations \/ CrMessages \/ CrFirstPrompt \/ CrFinalCheck
   \/ CrSubmit

\* The process runs on as long as it has a statement to execute.
CrystalSpec == CrystalInit /\ [][CrystalNext]_vars /\ WF_vars(CrystalNext)

----------------------------------------------------------------------------
(* annual_summary(), itsa.c:1241-1346 *)

\* Bound of the model: the times annual_summary() asks
MaxRounds == 4

\* itsa.c:1252-1272: the summary is requested, the temporary file opened and
\* the JSON parsed
AsGet ==
   /\ mainpc = "annual_summary"
   /\ \E e \in ErrCodes, not_found \in BOOLEAN, tmpfd \in {0 - 1, 3},
         root \in BOOLEAN :
         /\ err' = e
         /\ IF e # 0 /\ ~not_found
            THEN /\ trace' = trace \o
                       <<Request("mtd_sa_se_get_annual_summary", e),
                         Prints("printec",
                            "Couldn't get Annual Summary. (%s)\n%s\n")>>
                 /\ CmdReturns(ret)
            ELSE IF tmpfd = 0 - 1
            THEN /\ trace' = trace \o
                       <<Request("mtd_sa_se_get_annual_summary", e),
                         Prints("printsc",
                            "Annual Summary for #BOLD#%s#RST#\n"),
                         Prints("printec", "Couldn't open %s in %s\n")>>
                 /\ CmdReturns(ret)
            ELSE /\ trace' = trace \o
                       <<Request("mtd_sa_se_get_annual_summary", e),
                         Prints("printsc",
                            "Annual Summary for #BOLD#%s#RST#\n")>>
                 /\ mainpc' = IF root THEN "display" ELSE "display_null"
                 /\ ret' = ret
   /\ UNCHANGED <<restVars, stdin, rpos, submit, fib_sleep, state, calc_err>>

\* itsa.c:1274-1285 and 1332-1335: one round of the loop, from the label
\* `again' to the switch on the answer.  disp_annual_summary() fails on a
\* null root (itsa.c:1156-1157).
AsRound ==
   /\ mainpc \in {"display", "display_null"}
   /\ Len(SelectSeq(trace, LAMBDA e : e.ev = "fgets")) < MaxRounds
   /\ IF mainpc = "display_null"
      THEN /\ err' = 0 - 1
           /\ trace' = Append(trace, Called("disp_annual_summary", 0 - 1))
           /\ CmdReturns(ret)
           /\ UNCHANGED <<rpos, submit>>
      ELSE LET r == fgets(3, stdin, rpos)
           IN /\ err' = 0
              /\ trace' = trace \o
                    <<Called("disp_annual_summary", 0),
                      Prints("printcc", "Submit (s), Edit (e), Quit (Q)> "),
                      Fgets(3, r.s)>>
              /\ rpos' = r.rpos
              /\ submit' = IF r.s = NULL THEN submit ELSE r.s[1]
              /\ IF r.s = NULL THEN mainpc' = "display" /\ ret' = ret
                 ELSE IF r.s[1][1] \in {"s", "S"}
                 THEN mainpc' = "update" /\ ret' = ret
                 ELSE IF r.s[1][1] \in {"e", "E"}
                 THEN mainpc' = "editor" /\ ret' = ret
                 ELSE CmdReturns(0 - 2)
   /\ UNCHANGED <<restVars, stdin, fib_sleep, state, calc_err>>

\* itsa.c:1288-1304: the update is requested
AsUpdate ==
   /\ mainpc = "update"
   /\ \E e \in ErrCodes :
         /\ err' = e
         /\ IF e # 0
            THEN /\ trace' = trace \o
                       <<Request("mtd_sa_se_update_annual_summary", e),
                         Prints("printec",
                            "Couldn't update Annual Summary. (%s)\n%s\n")>>
                 /\ CmdReturns(ret)
            ELSE /\ trace' = trace \o
                       <<Request("mtd_sa_se_update_annual_summary", e),
                         Prints("printsc",
                            "Updated Annual Summary for #BOLD#%s#RST#\n")>>
                 /\ mainpc' = "trigger"
                 /\ ret' = ret
   /\ UNCHANGED <<restVars, stdin, rpos, submit, fib_sleep, state, calc_err>>

\* itsa.c:1306-1311 with 1165-1225: trigger_calculation(), which asks one
\* question of its own when it has the metadata (itsa.c:1201-1206) and keeps
\* the answer in a buffer of its own
AsTrigger ==
   /\ mainpc = "trigger"
   /\ \E e \in {0, 0 - 1}, asks \in BOOLEAN :
         /\ err' = e
         /\ trace' = Append(trace, Called("trigger_calculation", e))
         /\ rpos' = IF asks THEN fgets(3, stdin, rpos).rpos ELSE rpos
         /\ CmdReturns(IF e = 0 THEN 0 ELSE ret)
   /\ UNCHANGED <<restVars, stdin, submit, fib_sleep, state, calc_err>>

\* itsa.c:1313-1331: the editor is run on the file and the file read back
AsEditor ==
   /\ mainpc = "editor"
   /\ \E root \in BOOLEAN, truncated \in BOOLEAN :
         IF truncated
         THEN /\ err' = 0
              /\ trace' = Append(trace, Editor)
              /\ mainpc' = IF root THEN "display" ELSE "display_null"
              /\ ret' = ret
         ELSE /\ err' = 0 - 1
              /\ trace' = trace \o
                    <<Editor, Prints("printec", "ftruncate failed in %s\n")>>
              /\ CmdReturns(ret)
   /\ UNCHANGED <<restVars, stdin, rpos, submit, fib_sleep, state, calc_err>>

\* Answers: submit, edit and quit in one letter, nothing, another letter,
\* and the same as words
AsAnswers ==
   {<<"s">>, <<"S">>, <<"e">>, <<"E">>, <<"q">>, <<>>, <<"x">>,
    <<"e", "d", "i", "t">>, <<"e", "s", "s">>,
    <<"s", "u", "b", "m", "i", "t">>, <<"q", "u", "i", "t">>}

\* annual_summary() is called (itsa.c:1376 and 1404) with some standard input.
AnnualInit ==
   /\ NO_COLOR = FALSE
   /\ nomem = FALSE
   /\ ParserIdle
   /\ NoCall
   /\ pc = "idle"
   /\ mainpc = "annual_summary"
   /\ env = NULL
   /\ tty = TRUE
   /\ home = TRUE
   /\ argc = 3
   /\ colorsSet = TRUE
   /\ stdin \in LinesOf(AsAnswers, MaxLines)
   /\ rpos = 0
   /\ submit = <<>>
   /\ trace = <<>>
   /\ fib_sleep = 0 - 1
   /\ state = 0
   /\ err = 0
   /\ calc_err = 0
   /\ ret = 0 - 1

AnnualNext == AsGet \/ AsRound \/ AsUpdate \/ AsTrigger \/ AsEditor

AnnualSpec == AnnualInit /\ [][AnnualNext]_vars

----------------------------------------------------------------------------
(* Properties *)

\* The call is over: parser() returned, or the process died in it.
Terminal == pc \in {"done", "aborted"}

\* parser() returned, and no store of the call left its array.
Clean == pc = "done" /\ ~ub

(* C1: with colour on, #N#text#RST# becomes code(N) text code(RST) for     *)
(* every name N of the table, and two adjacent tokens #A##B# become        *)
(* code(A) code(B): both '#' of a token are consumed and the closing '#'   *)
(* does not open the next token.                                           *)
C1_KnownTokensReplaced ==
   (Terminal /\ ~NO_COLOR) =>
      /\ \A n \in Names, t \in Texts :
            input = Tok(n) \o t \o Tok(RST) =>
               Clean /\ out = CodeFor(n) \o t \o TC_RST
      /\ \A a \in Names, b \in Names :
            input = Tok(a) \o Tok(b) =>
               Clean /\ out = CodeFor(a) \o CodeFor(b)

C1_Witness ==
   /\ pc = "done" /\ ~NO_COLOR
   /\ input = Tok(RST) \o Tok(BOLD)
   /\ out = TC_RST \o TC_BOLD

(* C2: in both modes, a string without '#' is returned byte for byte.      *)
C2_PlainTextUnchanged ==
   (Terminal /\ ~HasHash(input)) => Clean /\ out = input

C2_Witness ==
   /\ pc = "done" /\ NO_COLOR
   /\ input = Repeat(<<"x">>, ALLOC_SZ + 1)
   /\ alloc = 2 * ALLOC_SZ
   /\ out = input

(* C3: with colour off, #N#text#RST# becomes text for every name N of the  *)
(* table: nothing of the two tokens and no escape byte is emitted.         *)
C3_NoColorElidesTokens ==
   (Terminal /\ NO_COLOR) =>
      \A n \in Names, t \in Texts :
         input = Tok(n) \o t \o Tok(RST) => Clean /\ out = t

C3_Witness ==
   /\ pc = "done" /\ NO_COLOR
   /\ input = Tok(RED) \o <<"x">> \o Tok(RST)
   /\ out = <<"x">>

(* C4 as stated: with colour on, #UNKNOWN##KNOWN#text#RST# becomes         *)
(* '#' code(KNOWN) text code(RST).                                         *)
C4_AsStated ==
   (Terminal /\ ~NO_COLOR) =>
      \A u \in UnknownNames, k \in Names, t \in {<<>>, <<"x">>} :
         input = Tok(u) \o Tok(k) \o t \o Tok(RST) =>
            Clean /\ out = <<HASH>> \o CodeFor(k) \o t \o TC_RST

(* C4 amended: with colour on and an unknown name of at most               *)
(* MAX_COLOR_NAME - 1 bytes, #UNKNOWN##KNOWN#text#RST# becomes             *)
(* '#' UNKNOWN '#' code(KNOWN) text code(RST): the unknown name and both   *)
(* '#' around it are kept, only the known tokens are replaced.             *)
C4_UnknownThenKnown ==
   (Terminal /\ ~NO_COLOR) =>
      \A u \in UnknownNames, k \in Names, t \in {<<>>, <<"x">>} :
         input = Tok(u) \o Tok(k) \o t \o Tok(RST) =>
            /\ Clean
            /\ out = <<HASH>> \o u \o <<HASH>> \o CodeFor(k) \o t \o TC_RST

C4_Witness ==
   /\ pc = "done" /\ ~NO_COLOR
   /\ input = Tok(<<"U","N","K","N","O","W","N">>) \o Tok(RED)
                 \o <<"x">> \o Tok(RST)
   /\ out = <<HASH, "U","N","K","N","O","W","N", HASH>> \o TC_RED
               \o <<"x">> \o TC_RST

----------------------------------------------------------------------------
(* Reference readings of a string, written without the scanner *)

\* Byte i of s lies in a span #NAME# whose NAME is in the table.
InKnownSpan(s, i) ==
   \E n \in Names :
      \E j \in 1..i :
         /\ i <= j + Len(n) + 1
         /\ j + Len(n) + 1 <= Len(s)
         /\ SubSeq(s, j, j + Len(n) + 1) = Tok(n)

\* The bytes of s at the positions lo..hi that satisfy Keep, in order
RECURSIVE Filter(_, _, _, _)
Filter(s, Keep(_, _), lo, hi) ==
   IF lo > hi THEN <<>>
   ELSE IF lo = hi THEN (IF Keep(s, lo) THEN <<s[lo]>> ELSE <<>>)
   ELSE LET mid == (lo + hi) \div 2
        IN Filter(s, Keep, lo, mid) \o Filter(s, Keep, mid + 1, hi)

NotInKnownSpan(s, i) == ~InKnownSpan(s, i)

\* The bytes of s that are part of no #NAME# span with NAME in the table
Literal(s) == Filter(s, NotInKnownSpan, 1, Len(s))

\* Where in b the leftmost embedding of a[lo..hi] that starts at `from' ends,
\* plus one; Len(b) + 2 when there is none.
RECURSIVE EmbedEnd(_, _, _, _, _)
EmbedEnd(a, lo, hi, b, from) ==
   IF lo > hi \/ from > Len(b) + 1 THEN from
   ELSE IF lo = hi
        THEN LET hits == {i \in from..Len(b) : b[i] = a[lo]}
             IN IF hits = {} THEN Len(b) + 2
                ELSE (CHOOSE i \in hits : \A j \in hits : i <= j) + 1
   ELSE LET mid == (lo + hi) \div 2
        IN EmbedEnd(a, mid + 1, hi, b, EmbedEnd(a, lo, mid, b, from))

\* a is a subsequence of b: the bytes of a appear in b, in order.
IsSubseq(a, b) == EmbedEnd(a, 1, Len(a), b, 1) <= Len(b) + 1

Hashes(s, lo, hi) == Cardinality({j \in lo..hi : s[j] = HASH})

\* With every '#'..'#' pair read as a span, leftmost first: byte i of s is
\* outside every span.  An odd last '#' opens a span that never closes; it
\* and the bytes behind it are outside.
OutsideSpans(s, i) ==
   LET before == Hashes(s, 1, i - 1)
       total  == Hashes(s, 1, Len(s))
   IN IF s[i] = HASH THEN before = total - 1 /\ total % 2 = 1
      ELSE before % 2 = 0 \/ before = total

\* s without its '#'..'#' spans
Unmarked(s) == Filter(s, OutsideSpans, 1, Len(s))

\* The position of the last '#' of s
LastHash(s) == CHOOSE i \in 1..Len(s) :
                  s[i] = HASH /\ \A j \in (i + 1)..Len(s) : s[j] # HASH

----------------------------------------------------------------------------

(* C5 as stated: in both modes and for every string, the bytes that are    *)
(* part of no #NAME# span with NAME in the table all appear in the output, *)
(* unchanged and in their order.                                           *)
C5_AsStated ==
   Terminal => pc = "done" /\ IsSubseq(Literal(input), out)

(* C6 as stated: in both modes, for every s without '#' and every p that   *)
(* leaves the scanner outside a token, p '#' s becomes parser(p) '#' s.    *)
C6_AsStated ==
   (Terminal /\ HasHash(input)) =>
      LET i == LastHash(input)
          p == SubSeq(input, 1, i - 1)
          s == SubSeq(input, i + 1, Len(input))
      IN ~parserEnd(NO_COLOR, p).in_color =>
            pc = "done" /\ out = parser(NO_COLOR, p) \o <<HASH>> \o s

(* C7 as stated: with colour on, for every string, parsing the output      *)
(* again gives the output, and the output holds no #NAME# span with NAME   *)
(* in the table.                                                           *)
C7_AsStated ==
   (Terminal /\ ~NO_COLOR) =>
      /\ pc = "done"
      /\ parser(FALSE, out) = out
      /\ \A i \in 1..Len(out) : ~InKnownSpan(out, i)

(* What holds of C5, C6, C7 and C9 in the calls that return: with colour   *)
(* on the bytes outside the table's tokens are kept, an unclosed token is  *)
(* emitted as it stands, the output parses to itself, and with colour off  *)
(* the output is the input without its spans.  The calls that do not       *)
(* return are those that store behind color[].                             *)
ReturnedCallsBehave ==
   pc = "done" =>
      /\ ~NO_COLOR => IsSubseq(Literal(input), out)
      /\ ~NO_COLOR => parser(FALSE, out) = out
      /\ NO_COLOR => out = Unmarked(input)
      /\ HasHash(input) =>
            LET i == LastHash(input)
                p == SubSeq(input, 1, i - 1)
                s == SubSeq(input, i + 1, Len(input))
            IN ~parserEnd(NO_COLOR, p).in_color =>
                  out = parser(NO_COLOR, p) \o <<HASH>> \o s

\* A store leaves its array only behind color[]: some '#' of the string is
\* followed by MAX_COLOR_NAME bytes that are not '#'.
OnlyLongNamesOverflow ==
   ub => \E i \in 1..Len(input) :
            /\ input[i] = HASH
            /\ i + MAX_COLOR_NAME <= Len(input)
            /\ \A j \in 1..MAX_COLOR_NAME : input[i + j] # HASH

(* C8: with colour on, n times #RED#x#RST# becomes n times                 *)
(* code(RED) x code(RST), for every n up to MaxReps (the output block      *)
(* grows and moves on the way) and for BigReps repetitions.                *)
BigReps == 1001

C8_RepeatsSurviveGrowth ==
   (Terminal /\ ~NO_COLOR) =>
      /\ \A n \in 0..MaxReps :
            input = Repeat(Unit, n) =>
               Clean /\ out = Repeat(TC_RED \o <<"x">> \o TC_RST, n)
      /\ input = <<>> =>
            LET end == parserEnd(FALSE, Repeat(Unit, BigReps))
            IN /\ ~end.ub
               /\ Returned(end) = Repeat(TC_RED \o <<"x">> \o TC_RST, BigReps)

C8_Witness ==
   /\ pc = "done" /\ ~NO_COLOR
   /\ input = Repeat(Unit, MaxReps)
   /\ alloc > 2 * ALLOC_SZ
   /\ new # MallocAddr
   /\ out = Repeat(TC_RED \o <<"x">> \o TC_RST, MaxReps)

(* C9 as stated: with colour off, for every string, every '#'..'#' span is *)
(* removed whatever its name, and the output has no escape byte that the   *)
(* input has not.                                                          *)
C9_AsStated ==
   (Terminal /\ NO_COLOR) =>
      /\ pc = "done"
      /\ out = Unmarked(input)
      /\ (\E i \in 1..Len(out) : out[i] = ESC)
            => (\E i \in 1..Len(input) : input[i] = ESC)

(* C10: the lookup of a closed token's name finds a code exactly when the  *)
(* name is, byte for byte, a name of the table, and then the code the      *)
(* table binds to it; every other name (a lower-case variant, a proper     *)
(* prefix, an extension) gives NULL.                                       *)
C10_LookupExact ==
   (~NO_COLOR /\ code # PtrTo(<<>>)) =>
      LET name == CStr(color)
      IN /\ code # NULL <=> name \in Names
         /\ name \in Names => code = PtrTo(CodeFor(name))

C10_Witness ==
   /\ ~NO_COLOR
   /\ CStr(color) = <<"R", "E", "D", "D">>
   /\ code = NULL
   /\ pc = "loop"

----------------------------------------------------------------------------
(* printc() and printc_xtra() *)

StartsWith(s, p) == Len(s) >= Len(p) /\ SubSeq(s, 1, Len(p)) = p

\* The message types with the colour name and the label of their prefix
Kinds ==
   {[type |-> MT_ERROR, name |-> <<"E", "R", "R", "O", "R">>,
     label |-> <<"E", "R", "R", "O", "R">>],
    [type |-> MT_WARNING, name |-> <<"W", "A", "R", "N", "I", "N", "G">>,
     label |-> <<"W", "A", "R", "N", "I", "N", "G">>],
    [type |-> MT_INFO, name |-> <<"I", "N", "F", "O">>,
     label |-> <<"I", "N", "F", "O">>],
    [type |-> MT_CONFIRM, name |-> <<"C", "O", "N", "F", "I", "R", "M">>,
     label |-> <<"C", "O", "N", "F", "I", "R", "M", "A", "T", "I", "O", "N">>],
    [type |-> MT_SUCCESS, name |-> <<"S", "U", "C", "C", "E", "S", "S">>,
     label |-> <<"O", "K">>]}

\* What a message of kind k starts with, in a mode
PrefixOut(k, nocolor) ==
   IF nocolor THEN <<"[">> \o k.label \o <<"]", " ">>
   ELSE <<"[">> \o CodeFor(k.name) \o k.label \o TC_RST \o <<"]", " ">>

\* The format of the call with its prefix, and the substituted string
Prefixed ==
   IF call[1].fn = "printc_xtra" THEN tstr(call[1].type) \o call[1].fmt
   ELSE call[1].fmt

Substituted == vformat(Prefixed, call[1].args)

\* The call returned after vasprintf() had built its string.
Printed == pc = "returned" /\ plen # 0 - 1

(* C11: every call of printc_xtra() with one of the five message types     *)
(* that returns after a successful substitution has written one string,    *)
(* to the stream of the call.  With colour on the string starts with       *)
(* "[" code(K) LABEL code(RST) "] ", with colour off with "[LABEL] ",      *)
(* (K, LABEL) being (ERROR, ERROR), (WARNING, WARNING), (INFO, INFO),      *)
(* (CONFIRM, CONFIRMATION), (SUCCESS, OK); no '#' of the prefix is in it.  *)
(* The call dies without returning only when its string holds a name of    *)
(* MAX_COLOR_NAME bytes or more.                                           *)
C11_PrefixPerKind ==
   /\ \A k \in Kinds :
         (Printed /\ call[1].fn = "printc_xtra" /\ call[1].type = k.type) =>
            LET w == files[call[1].fp]
                p == PrefixOut(k, NO_COLOR)
            IN /\ Len(w) = 1
               /\ StartsWith(w[1], p)
               /\ ~HasHash(p)
   /\ pc = "aborted" => Len(color) > MAX_COLOR_NAME

C11_Witness ==
   /\ Printed /\ ~NO_COLOR
   /\ call[1] = printcc(<<"%", "s">>, <<<<"x">>>>)
   /\ files["stdout"] =
         << <<"[">> \o TC_CHARC \o
            <<"C", "O", "N", "F", "I", "R", "M", "A", "T", "I", "O", "N">>
            \o TC_RST \o <<"]", " ", "x">> >>

NothingWritten == files = [fp \in {"stdout", "stderr"} |-> <<>>]

(* C12: in printc() and printc_xtra() the arguments are substituted        *)
(* first, parser() then runs on the substituted string, and its result is  *)
(* written in one write: while parser() runs its input is the substituted  *)
(* string and nothing is written yet, and a call that returns after a      *)
(* successful substitution has written the string parser() makes of the    *)
(* substituted string, once, to its stream and nothing to the other.  A    *)
(* token that an argument brings in is expanded like one of the format:    *)
(* printc("%s", a) writes what parser() makes of a, with colour on         *)
(* code(GREEN) for "#GREEN#" and code(RST) for "#RST#".                    *)
C12_SubstituteExpandWrite ==
   /\ (call # NULL /\ pc \in {"loop", "done"}) =>
         input = Substituted /\ NothingWritten
   /\ Printed =>
         /\ files[call[1].fp] = <<parser(NO_COLOR, Substituted)>>
         /\ \A fp \in {"stdout", "stderr"} \ {call[1].fp} : files[fp] = <<>>
   /\ (Printed /\ call[1].fn = "printc" /\ call[1].fmt = <<"%", "s">>) =>
         /\ files["stdout"] = <<parser(NO_COLOR, call[1].args[1])>>
         /\ (~NO_COLOR /\ call[1].args[1] = Tok(GREEN)) =>
               files["stdout"] = <<TC_GREEN>>
         /\ (~NO_COLOR /\ call[1].args[1] = Tok(RST)) =>
               files["stdout"] = <<TC_RST>>

C12_Witness ==
   /\ Printed /\ ~NO_COLOR
   /\ call[1] = printc(<<HASH, "%", "s", HASH, "x", "%", "s">>,
                       <<RED, Tok(RST)>>)
   /\ files["stdout"] = <<TC_RED \o <<"x">> \o TC_RST>>

(* C13: when vasprintf() returns -1 in printc() or printc_xtra(), the call *)
(* goes to its end without entering parser() and writes nothing, not the   *)
(* prefix of a message type either.                                        *)
C13_FailedSubstitutionIsSilent ==
   (call # NULL /\ plen = 0 - 1) =>
      /\ pc \in {"out_free", "returned"}
      /\ ParserIdle
      /\ NothingWritten

C13_Witness ==
   /\ pc = "returned" /\ plen = 0 - 1
   /\ call[1].fn = "printc_xtra" /\ call[1].type = MT_ERROR
   /\ NothingWritten

----------------------------------------------------------------------------
(* Allocation failure *)

(* C14 as stated: when malloc() or realloc() fails in parser(), the        *)
(* process is terminated at that point: with the null pointer for its      *)
(* block parser() does not go on scanning, does not store through the      *)
(* pointer and does not return.                                            *)
C14_AsStated == (alloc > 0 /\ new = NullAddr) => pc = "aborted"

----------------------------------------------------------------------------
(* Termination *)

(* C15 as stated: on every string and in both modes the call ends by       *)
(* returning, the same string for the same input and mode, and on the way  *)
(* no byte of the input is examined more than twice.                       *)
C15_AsStated ==
   /\ \A i \in 1..Len(input) : seen[i] <= 2
   /\ Terminal => Clean /\ out = parser(NO_COLOR, input)

\* What holds of the scan on every string: a byte is examined twice only
\* when it is the '#' that closed an unknown name with colour on, which
\* bounds the iterations of a call by twice the length of its input, and
\* the read pointer never moves back between two iterations.
ScanBounded ==
   \A i \in 1..Len(input) :
      /\ seen[i] <= 2
      /\ seen[i] = 2 => ~NO_COLOR /\ input[i] = HASH

ScanNeverMovesBack == [][buf' >= buf]_vars

----------------------------------------------------------------------------
(* The colouring mode *)

HasEsc(s) == \E i \in 1..Len(s) : s[i] = ESC

\* The first byte of the environment variable, "" when there is none
FirstOfEnv == IF env = NULL \/ env[1] = <<>> THEN "" ELSE env[1][1]

\* Colour is wanted: the mode is ON, or it is AUTO and the output is a
\* terminal.
ColorWanted ==
   \/ FirstOfEnv \in {"t", "T", "y", "Y"}
   \/ FirstOfEnv \notin {"t", "T", "y", "Y", "f", "F", "n", "N"} /\ tty

(* C16 as stated: every call of printc() or printc_xtra() is made after    *)
(* set_colors() has set the mode, the error message of get_conf_dir()      *)
(* too, and once set the mode keeps the value start-up gave it, so that    *)
(* all calls see the same value.                                           *)
C16_AsStated ==
   /\ call # NULL => colorsSet
   /\ colorsSet => (NO_COLOR <=> ~ColorWanted)

\* What holds: set_colors() is the only writer of the mode.
ModeWrittenOnce == [][colorsSet => NO_COLOR' = NO_COLOR]_vars

(* C17 as stated: the mode is decided by the first byte of the             *)
(* environment variable (t, T, y, Y: ON; f, F, n, N: OFF; anything else    *)
(* or nothing: AUTO) and by isatty(), and a message holds escape codes     *)
(* exactly when the mode is ON, or AUTO on a terminal.                     *)
C17_AsStated ==
   /\ colorsSet => (NO_COLOR <=> ~ColorWanted)
   /\ (call # NULL /\ pc = "done" /\ call[1].fn = "printc_xtra") =>
         (HasEsc(out) <=> ColorWanted)

\* What holds: the messages printed after set_colors() hold escape codes
\* exactly when colour is wanted.
ModeDecidesAfterSetColors ==
   (colorsSet /\ pc = "done" /\ call[1].fn = "printc_xtra") =>
      (HasEsc(out) <=> ColorWanted)

----------------------------------------------------------------------------
(* Unknown names *)

\* The spans #U# of s, given by the places of their two '#', that the scan
\* meets outside a token and whose name U is not in the table
UnknownSpans(s) ==
   {sp \in (1..Len(s)) \X (1..Len(s)) :
       /\ sp[1] < sp[2]
       /\ s[sp[1]] = HASH /\ s[sp[2]] = HASH
       /\ ~HasHash(SubSeq(s, sp[1] + 1, sp[2] - 1))
       /\ SubSeq(s, sp[1] + 1, sp[2] - 1) \notin Names
       /\ ~parserEnd(FALSE, SubSeq(s, 1, sp[1] - 1)).in_color}

\* parser(p) '#' U parser('#' rest), for the span sp of s
SplitAtSpan(s, sp) ==
   parser(FALSE, SubSeq(s, 1, sp[1] - 1))
      \o SubSeq(s, sp[1], sp[2] - 1)
      \o parser(FALSE, SubSeq(s, sp[2], Len(s)))

(* C18 as stated: with colour on, for every string p '#' U '#' rest where  *)
(* p leaves the scan outside a token and U is no name of the table, the    *)
(* call returns parser(p) '#' U parser('#' rest): the opening '#' and U    *)
(* are kept and the closing '#' is read again as the start of a token.     *)
C18_AsStated ==
   (Terminal /\ ~NO_COLOR) =>
      \A sp \in UnknownSpans(input) :
         Clean /\ out = SplitAtSpan(input, sp)

\* What holds: the rule, of every call that returns.
UnknownNameRuleWhenReturned ==
   (pc = "done" /\ ~NO_COLOR) =>
      \A sp \in UnknownSpans(input) : out = SplitAtSpan(input, sp)

\* The rule is met with a name of MAX_COLOR_NAME - 1 bytes.
UnknownNameRuleSeen ==
   /\ Clean /\ ~NO_COLOR
   /\ input = Tok(Repeat(<<"a">>, MAX_COLOR_NAME - 1)) \o Tok(RED)
                \o Tok(RST)
   /\ out = <<HASH>> \o Repeat(<<"a">>, MAX_COLOR_NAME - 1) \o <<HASH>>
               \o TC_RED \o TC_RST

----------------------------------------------------------------------------
(* The name accumulator and the output block *)

(* C19 as stated: in every state of a call, on every string, the bytes     *)
(* stored through cptr, the terminator of a closed token included, are     *)
(* within the MAX_COLOR_NAME bytes of color[].                             *)
C19_AsStated == Len(color) <= MAX_COLOR_NAME /\ ~ub

(* C20: every store to the output block is below its capacity.  Between    *)
(* two iterations the write pointer is inside the block, so that the copy  *)
(* of the next input byte and the terminator have their place and the      *)
(* capacity is at least the length of the content plus one; no store of a  *)
(* call leaves the block (the copy of a code after one growth of ALLOC_SZ  *)
(* included): the only stores that leave their array are those of a name   *)
(* of MAX_COLOR_NAME bytes or more, to color[].                            *)
C20_WritesBelowCapacity ==
   /\ Len(mem) = alloc
   /\ pc = "loop" => ptr - new >= 0 /\ ptr - new < alloc
   /\ pc = "done" => Len(out) + 1 <= alloc
   /\ ub => Len(color) > MAX_COLOR_NAME

\* The copy of a code made the block grow, once.
C20_Witness ==
   /\ pc = "done" /\ ~NO_COLOR /\ ~ub
   /\ input = Repeat(<<"x">>, ALLOC_SZ - 8) \o Tok(RED)
   /\ out = Repeat(<<"x">>, ALLOC_SZ - 8) \o TC_RED
   /\ Len(out) + 1 > ALLOC_SZ
   /\ alloc = 2 * ALLOC_SZ

----------------------------------------------------------------------------
(* srealloc() and the capacity of the block *)

\* The calls of srealloc() the iteration about to run makes, each as the locals
\* at the call and the `extra' it is given: the one before the copy of a code
\* (color.c:129), when the byte closes a token that has a code, and the one at
\* `next' (color.c:146).
sreallocCalls(moved) ==
   IF ~AtByte THEN {}
   ELSE LET s0 == Store([St EXCEPT !.code = PtrTo(<<>>)], ptr, input[buf + 1])
            s2 == Closed(s0)
        IN {<<BeforeNext(St, moved), 1>>}
           \cup IF in_color /\ input[buf + 1] = HASH
                    /\ s2.code # NULL /\ s2.code # PtrTo(<<>>)
                 THEN {<<[s2 EXCEPT !.ptr = s2.sptr], Len(s2.code[1])>>}
                 ELSE {}

(* C21: a call of srealloc() that reallocates leaves the write pointer and  *)
(* the token-start mark at the offsets from the new base they had from the  *)
(* old one, and every byte below the write pointer as it was; a call that   *)
(* does not grow the block leaves base, capacity, write pointer and mark    *)
(* unchanged.                                                               *)
C21_RebaseKeepsOffsets ==
   \A moved \in BOOLEAN : \A c \in sreallocCalls(moved) :
      LET st == c[1]
          r  == srealloc(st, c[2], moved)
      IN IF ~FitsAlloc(st.ptr - st.new, c[2], st.alloc)
         THEN /\ r.alloc > st.alloc
              /\ moved => r.new # st.new
              /\ r.ptr - r.new = st.ptr - st.new
              /\ r.sptr - r.new = st.sptr - st.new
              /\ \A i \in 1..(st.ptr - st.new) : r.mem[i] = st.mem[i]
         ELSE /\ r.new = st.new
              /\ r.alloc = st.alloc
              /\ r.ptr = st.ptr
              /\ r.sptr = st.sptr
              /\ r.mem = st.mem

\* The block grew and moved while a token was open: the mark is four bytes
\* below the write pointer at the new address as it was at the old one, and
\* the first ALLOC_SZ bytes are those of the input.
C21_Witness ==
   /\ pc = "loop" /\ ~ub
   /\ alloc = 2 * ALLOC_SZ /\ new # MallocAddr
   /\ in_color
   /\ ptr - new = ALLOC_SZ
   /\ sptr - new = ALLOC_SZ - 4
   /\ \A i \in 1..ALLOC_SZ : mem[i] = input[i]

(* C22: during one call of parser() the capacity of the block starts at     *)
(* ALLOC_SZ, is always a multiple of ALLOC_SZ, and from one iteration to    *)
(* the next it stays as it is or grows by exactly ALLOC_SZ; it never        *)
(* decreases, whichever way the write pointer moves.                        *)
C22_CapacityGrowsBySteps ==
   /\ alloc = ALLOC_SZ
   /\ [](alloc >= ALLOC_SZ /\ alloc % ALLOC_SZ = 0)
   /\ [][alloc' = alloc \/ alloc' = alloc + ALLOC_SZ]_vars

\* The block has grown once and the write pointer is back below the first
\* capacity: the token that made it grow was elided or replaced by its code.
C22_Witness ==
   /\ pc = "loop"
   /\ alloc = 2 * ALLOC_SZ
   /\ ptr - new < ALLOC_SZ - 1
   /\ buf > ALLOC_SZ

----------------------------------------------------------------------------
(* One call after another *)

(* C23: the state of parser() is made anew in every call.  Whatever calls   *)
(* of printc() and printc_xtra() came before, and whatever they left in     *)
(* memory, parser() starts outside a token with an empty name and a block   *)
(* of ALLOC_SZ bytes, and the string it returns is the one it returns for   *)
(* the same argument in the same mode as the first call of a process.       *)
C23_EveryCallStartsAfresh ==
   /\ (pc = "loop" /\ \A i \in 1..Len(seen) : seen[i] = 0) =>
         /\ ~in_color /\ cptr = 0
         /\ alloc = ALLOC_SZ
         /\ ptr = new /\ sptr = new /\ buf = 0
   /\ pc = "done" => out = parser(NO_COLOR, input)

\* A second call has returned; it got the block of the first call, which is
\* still full of the text of that call behind the string of this one.
C23_Witness ==
   /\ pc = "done"
   /\ Writes = 1
   /\ files["stdout"] = <<Repeat(<<"x">>, ALLOC_SZ + 2)>>
   /\ input = Tok(<<"U">>) \o <<"x">>
   /\ out = input
   /\ mem[ALLOC_SZ] = "x"

----------------------------------------------------------------------------
(* The scanner *)

\* The mark is in the block, not above the write pointer, and on a '#'.
MarkOnHash ==
   /\ sptr - new >= 0 /\ sptr <= ptr /\ ptr - new < alloc
   /\ mem[sptr - new + 1] = HASH

\* The bytes of the block between the mark and the write pointer are the
\* bytes of the name, cptr of them.
NameInBlock ==
   /\ ptr - sptr - 1 = cptr
   /\ \A i \in 1..cptr : mem[sptr - new + 1 + i] = color[i]

\* The flag changes from one iteration to the next only at a '#': it is set
\* by a '#' read outside a token and cleared by a '#' read inside one.
FlagFollowsHash ==
   /\ (~in_color /\ in_color') => (AtByte /\ input[buf + 1] = HASH)
   /\ (in_color /\ ~in_color') => (AtByte /\ input[buf + 1] = HASH)

(* C24: whenever the flag in_color is set at the top of the loop, the mark  *)
(* sptr is an offset of the block not above the write pointer, the byte at  *)
(* the mark is '#', and the bytes between the mark and the write pointer    *)
(* are the bytes the accumulator color[] holds; the flag is set only by a   *)
(* '#' read outside a token and cleared only by a '#' read inside one.      *)
C24_AsStated ==
   /\ []((pc = "loop" /\ in_color) =>
           (MarkOnHash /\ NameInBlock /\ cptr <= MAX_COLOR_NAME))
   /\ [][FlagFollowsHash]_vars

\* As long as no store has left color[], the scanner keeps all of it.
ScannerInvariantWithinBound ==
   /\ []((pc = "loop" /\ in_color /\ ~ub) =>
           (MarkOnHash /\ NameInBlock /\ cptr <= MAX_COLOR_NAME))
   /\ []((pc = "loop" /\ in_color) => (MarkOnHash /\ NameInBlock))
   /\ [][FlagFollowsHash]_vars

----------------------------------------------------------------------------
(* The empty name *)

(* C25: the empty name is not a name of the table.  With colour on, "##"    *)
(* in front of a token gives one '#' and leaves the second '#' to open the  *)
(* token, so that "##N#t" becomes "#" code(N) t for every name N of the     *)
(* table ("##RED#x" becomes "#" code(RED) "x"); and both '#' that follow    *)
(* an unknown name, as in "#XXXX##text", are in the output.                 *)
C25_EmptyNameIsUnknown ==
   /\ lookup(<<>>) = NULL
   /\ (Terminal /\ ~NO_COLOR) =>
         /\ \A p \in {<<>>, <<"x">>}, n \in Names, t \in {<<>>, <<"x">>} :
               input = p \o <<HASH, HASH>> \o n \o <<HASH>> \o t =>
                  Clean /\ out = p \o <<HASH>> \o CodeFor(n) \o t
         /\ \A u \in {<<"X", "X", "X", "X">>, <<"U">>},
               t \in {<<>>, <<"x">>, <<"t", "e", "x", "t">>} :
               input = <<HASH>> \o u \o <<HASH, HASH>> \o t =>
                  Clean /\ out = input

\* parser("##RED#x") has returned "#" code(RED) "x".
C25_Witness ==
   /\ pc = "done" /\ ~NO_COLOR
   /\ input = <<HASH, HASH>> \o RED \o <<HASH, "x">>
   /\ out = <<HASH>> \o TC_RED \o <<"x">>

----------------------------------------------------------------------------
(* The table *)

\* Every name is in the table once, is not empty, fits color[] with its
\* terminator and has no '#'; every code is not empty, has no '#' and is not
\* longer than ALLOC_SZ.
TableWellFormed ==
   /\ \A i \in 1..Len(colors), j \in 1..Len(colors) :
         colors[i].color = colors[j].color => i = j
   /\ \A i \in 1..Len(colors) :
         /\ Len(colors[i].color) > 0
         /\ Len(colors[i].color) < MAX_COLOR_NAME
         /\ ~HasHash(colors[i].color)
         /\ Len(colors[i].code) > 0
         /\ Len(colors[i].code) <= ALLOC_SZ
         /\ ~HasHash(colors[i].code)

\* The iteration about to run closes a token.
AtClose == AtByte /\ in_color /\ input[buf + 1] = HASH

(* C26: the table is well formed: every name is unique, not empty, shorter  *)
(* than MAX_COLOR_NAME and without '#'; every code is not empty, without    *)
(* '#' and at most 64 bytes long.  Hence with colour on a token of the      *)
(* table puts at least one byte in the output, and the branch of the empty  *)
(* code (color.c:123-124) is taken only with colour off.                    *)
C26_TableWellFormed ==
   /\ TableWellFormed
   /\ AtClose =>
         /\ Closed(St).code = PtrTo(<<>>) => NO_COLOR
         /\ (~NO_COLOR /\ Closed(St).code # NULL) =>
               \A moved \in BOOLEAN :
                  LET r == Body(St, moved)
                  IN (r.ptr - r.new) - (sptr - new) >= 1

\* With colour on, #RST# has just been replaced by its code, four bytes that
\* end at the write pointer.
C26_Witness ==
   /\ pc = "loop" /\ ~NO_COLOR /\ ~in_color
   /\ code = PtrTo(TC_RST)
   /\ ptr - sptr = Len(TC_RST)
   /\ mem[ptr - new] = "m"

----------------------------------------------------------------------------
(* The retries of get_calculation_meta() *)

IsMetaRequest(e) ==
   e.ev = "request" /\ e.what = "mtd_ic_sa_get_calculation_meta"

IsSleep(e) == e.ev = "sleep"

\* The requests for the metadata made so far, and the sleeps
MetaRequests == SelectSeq(trace, IsMetaRequest)
Sleeps       == SelectSeq(trace, IsSleep)

\* get_calculation_meta() is over.
MetaOver == mainpc \notin {"crystallise", "again", "back_off", "result"}

\* The retries so far follow the back-off and are within its bound.
BackOffFollowed ==
   /\ Len(MetaRequests) <= 6
   /\ Len(Sleeps) <= 5
   /\ \A i \in 1..Len(Sleeps) : Sleeps[i].val = <<1, 1, 2, 3, 5>>[i]
   /\ Len(Sleeps) \in {Len(MetaRequests) - 1, Len(MetaRequests)}
   /\ (Len(Sleeps) > 0 /\ Len(Sleeps) = Len(MetaRequests)) => mainpc = "again"
   /\ \A i \in 1..(Len(MetaRequests) - 1) :
         MetaRequests[i].val = 0 - MTD_ERR_REQUEST
   /\ \A i \in 1..Len(MetaRequests) :
         LET e == MetaRequests[i].val
         IN (i = Len(MetaRequests)
               /\ (i = 6 \/ e # 0 - MTD_ERR_REQUEST) /\ e # 0) =>
                  (MetaOver /\ calc_err = 0 - 1)

(* C27: get_calculation_meta() makes its request again only after a         *)
(* failure with -MTD_ERR_REQUEST, and sleeps 1, 1, 2, 3 and 5 seconds       *)
(* before the successive retries; the failure that follows the sleep of 5   *)
(* seconds ends it with an error, as does every other error at once, so at  *)
(* most 6 requests are made and the function always comes to its end.       *)
C27_BoundedFibonacciRetries ==
   /\ []BackOffFollowed
   /\ (mainpc = "again") ~> MetaOver

\* Six requests were made, with sleeps of 1, 1, 2, 3 and 5 seconds between
\* them, the sixth failed like the others and the function gave up.
C27_Witness ==
   /\ Len(MetaRequests) = 6
   /\ MetaRequests[6].val = 0 - MTD_ERR_REQUEST
   /\ Len(Sleeps) = 5 /\ Sleeps[5].val = 5
   /\ MetaOver /\ calc_err = 0 - 1

----------------------------------------------------------------------------
(* What the user answered and what was sent *)

\* Where the line that holds byte pos + 1 of standard input ends
LineEnd(in, pos) ==
   CHOOSE i \in (pos + 1)..Len(in) :
      /\ i = Len(in) \/ in[i] = LF
      /\ \A j \in (pos + 1)..(i - 1) : in[j] # LF

\* How many bytes precede line k of standard input
RECURSIVE LineStart(_, _)
LineStart(in, k) ==
   IF k = 1 THEN 0
   ELSE IF LineStart(in, k - 1) >= Len(in) THEN Len(in)
   ELSE LineEnd(in, LineStart(in, k - 1))

\* Line k of what the user typed, without its newline; NULL when the user
\* typed fewer lines
Answer(in, k) ==
   LET from == LineStart(in, k)
   IN IF from >= Len(in) THEN NULL
      ELSE LET to == LineEnd(in, from)
           IN PtrTo(SubSeq(in, from + 1, IF in[to] = LF THEN to - 1 ELSE to))

\* The place of the first event about `what' in the trace, 0 without one
Pos(what) ==
   IF \E i \in 1..Len(trace) : trace[i].what = what
   THEN CHOOSE i \in 1..Len(trace) :
           /\ trace[i].what = what
           /\ \A j \in 1..(i - 1) : trace[j].what # what
   ELSE 0

\* The event at that place succeeded.
Succeeded(what) == Pos(what) > 0 /\ trace[Pos(what)].val = 0

\* The results fgets() gave, in order
Reads == SelectSeq(trace, LAMBDA e : e.ev = "fgets")

\* The final submission was requested.
Crystallised == Pos("mtd_ic_cr_crystallise") > 0

\* All that crystallise() does before it asks, done and in order
RetrievedInOrder ==
   /\ Succeeded("mtd_ic_cr_intent_to_crystallise")
   /\ Len(MetaRequests) > 0
   /\ MetaRequests[Len(MetaRequests)].val = 0
   /\ calc_err = 0
   /\ Succeeded("display_individual_calculations")
   /\ Succeeded("display_calculation_messages")
   /\ Pos("mtd_ic_cr_intent_to_crystallise")
         < Pos("mtd_ic_sa_get_calculation_meta")
   /\ Pos("mtd_ic_sa_get_calculation_meta")
         < Pos("display_individual_calculations")
   /\ Pos("display_individual_calculations")
         < Pos("display_calculation_messages")
   /\ Pos("display_calculation_messages")
         < Pos("Crystallise this TAX return? (y/N)> ")
   /\ Pos("Crystallise this TAX return? (y/N)> ")
         < Pos("Enter (without the quotes) 'i agree'> ")
   /\ Pos("Enter (without the quotes) 'i agree'> ")
         < Pos("mtd_ic_cr_crystallise")

(* C28: crystallise() requests the final submission only if, earlier in the *)
(* same run and in this order, the intent to crystallise succeeded, the     *)
(* metadata, the calculations and the messages were retrieved without       *)
(* error, the user answered the first prompt with a line that starts with   *)
(* 'y' or 'Y' and the second prompt with exactly "i agree"; on every other  *)
(* path nothing is submitted, and the function returns 0 when the user      *)
(* declined.                                                                *)
C28_AsStated ==
   /\ Crystallised =>
         /\ RetrievedInOrder
         /\ Answer(stdin, 1) # NULL
         /\ Answer(stdin, 1)[1] # <<>>
         /\ Answer(stdin, 1)[1][1] \in {"y", "Y"}
         /\ Answer(stdin, 2) = PtrTo(<<"i", " ", "a", "g", "r", "e", "e">>)
   /\ (mainpc = "returned" /\ ~Crystallised
         /\ Pos("Crystallise this TAX return? (y/N)> ") > 0) => ret = 0

\* In terms of what fgets() returned the rule holds: the submission is
\* requested only after all was retrieved, the first fgets() returned bytes
\* that start with 'y' or 'Y' and the second one returned "i agree\n".
SubmissionNeedsBothReads ==
   /\ Crystallised =>
         /\ RetrievedInOrder
         /\ Len(Reads) = 2
         /\ Reads[1].s # NULL /\ Reads[1].s[1][1] \in {"y", "Y"}
         /\ Reads[2].s = PtrTo(IAgreeLine)
   /\ (mainpc = "returned" /\ ~Crystallised
         /\ Pos("Crystallise this TAX return? (y/N)> ") > 0) => ret = 0

----------------------------------------------------------------------------
(* What the user answered to annual_summary() and what it did *)

\* The line of standard input that the last byte read belongs to
LastLineRead ==
   CHOOSE k \in 1..Len(stdin) :
      LineStart(stdin, k) < rpos /\ rpos <= LineStart(stdin, k + 1)

\* Line k of standard input starts with one of `letters'.
LineStartsWith(k, letters) ==
   /\ Answer(stdin, k) # NULL
   /\ Answer(stdin, k)[1] # <<>>
   /\ Answer(stdin, k)[1][1] \in letters

\* The update was requested; trigger_calculation() was called.
Updated == Pos("mtd_sa_se_update_annual_summary") > 0
Triggered == Pos("trigger_calculation") > 0

\* The positions of the loop of annual_summary()
InLoop(l) == l \in {"display", "display_null", "editor"}

(* C29: annual_summary() requests the update, and then calls                *)
(* trigger_calculation(), only after the user answered the prompt with a    *)
(* line that starts with 's' or 'S'; a line that starts with 'e' or 'E'     *)
(* only runs the editor, and any other line returns -2 with nothing sent.   *)
C29_AsStated ==
   /\ mainpc = "update" => rpos > 0 /\ LineStartsWith(LastLineRead, {"s", "S"})
   /\ mainpc = "editor" => rpos > 0 /\ LineStartsWith(LastLineRead, {"e", "E"})
   /\ InLoop(mainpc) => ~Updated /\ ~Triggered
   /\ Triggered =>
         /\ Succeeded("mtd_sa_se_update_annual_summary")
         /\ Pos("mtd_sa_se_update_annual_summary") < Pos("trigger_calculation")
   /\ (mainpc = "returned" /\ ret = 0 - 2) =>
         /\ ~Updated /\ ~Triggered
         /\ rpos > 0
         /\ ~LineStartsWith(LastLineRead, {"s", "S", "e", "E"})

\* In terms of what fgets() returned the rule holds: the first byte of the
\* last bytes returned decides between the update, the editor and -2.
ReadsDecide ==
   LET last == Reads[Len(Reads)].s
   IN /\ mainpc = "update" =>
            Len(Reads) > 0 /\ last # NULL /\ last[1][1] \in {"s", "S"}
      /\ mainpc = "editor" =>
            Len(Reads) > 0 /\ last # NULL /\ last[1][1] \in {"e", "E"}
      /\ InLoop(mainpc) => ~Updated /\ ~Triggered
      /\ Triggered =>
            /\ Succeeded("mtd_sa_se_update_annual_summary")
            /\ Pos("mtd_sa_se_update_annual_summary")
                  < Pos("trigger_calculation")
      /\ (mainpc = "returned" /\ ret = 0 - 2) =>
            /\ ~Updated /\ ~Triggered
            /\ Len(Reads) > 0 /\ last # NULL
            /\ last[1][1] \notin {"s", "S", "e", "E"}

\* The last fgets() returned bytes that ask to edit.
EditAsked ==
   /\ Len(Reads) > 0
   /\ Reads[Len(Reads)].s # NULL
   /\ Reads[Len(Reads)].s[1][1] \in {"e", "E"}

(* C30: every round of the loop of annual_summary() that is not a request   *)
(* to edit leaves the loop, the round in which fgets() fails at the end of  *)
(* standard input included.                                                 *)
C30_AsStated ==
   [][(mainpc = "display" /\ InLoop(mainpc')) => EditAsked']_vars

\* Every round in which fgets() returned bytes leaves the loop unless they
\* ask to edit.
AnswerButEditLeaves ==
   [][(mainpc = "display" /\ InLoop(mainpc')
         /\ Reads'[Len(Reads')].s # NULL) => EditAsked']_vars

====
